---- MODULE Spec2Model ----
(***************************************************************************)
(* A model of the canvas component of ShapeShifter                         *)
(* (src/src/app/canvas/canvas.component.ts): the controllers that the      *)
(* app-mode subscription creates, the selection and hover records it       *)
(* resets, the transform resolver getTransformsForLayer, the coordinate    *)
(* mappings built on it, and the order of the drawing operations of        *)
(* draw() and drawPaths().                                                 *)
(*                                                                         *)
(* Numbers.  Coordinates and matrix entries are exact rationals: a point   *)
(* is [x, y, q] and stands for (x/q, y/q); a matrix is [a, b, c, d, e, f,  *)
(* q] and stands for the canvas matrix (a/q .. f/q).  Fractions (alpha,    *)
(* trim-path start/end/offset) are counted in 1/Unit.                      *)
(*                                                                         *)
(* Services.  The app-mode, selection, hover and state services are not    *)
(* part of the component.  A call of a service sets the value the service  *)
(* holds; the app-mode notification reaches the canvas as a step of its    *)
(* own (appModePending) that nothing else comes before, as the service     *)
(* notifies at once; the other notifications only redraw.                  *)
(***************************************************************************)
EXTENDS Integers, Sequences, FiniteSets, TLC

VARIABLES
  canvasType,              \* @Input() canvasType
  isViewInit,              \* this.isViewInit
  appMode,                 \* appModeService.getAppMode()
  appModePending,          \* an app-mode notification is on its way to the canvas
  pathSelector,            \* this.pathSelector
  segmentSplitter,         \* this.segmentSplitter
  shapeSplitter,           \* this.shapeSplitter
  selections,              \* selectionService.getSelections()
  hover,                   \* hoverService.getHover()
  vectorLayer,             \* stateService.getVectorLayer(canvasType)
  activePathId,            \* stateService.getActivePathId(canvasType)
  morphable,               \* stateService.getMorphabilityStatus() = Morphable
  labelPoints,             \* settingsService.shouldLabelPoints()
  disabledSubPathIndices,  \* this.disabledSubPathIndices
  cssScale,                \* this.cssScale, in 1/DEFAULT_VIEWPORT_SIZE
  currentHoverPreviewPath, \* this.currentHoverPreviewPath
  ops,                     \* the drawing-surface calls of the last handler, in order
  error,                   \* the last handler ended by raising a TypeError
  last                     \* the last handler that ran, with its inputs and results

vars == <<canvasType, isViewInit, appMode, appModePending, pathSelector,
          segmentSplitter, shapeSplitter, selections, hover, vectorLayer,
          activePathId, morphable, labelPoints, disabledSubPathIndices,
          cssScale, currentHoverPreviewPath, ops, error, last>>

----------------------------------------------------------------------------
(* Bounds of the model *)

\* layers of a layer tree, the VectorLayer root included
MaxNodes == 4
\* points have coordinates in 0..MaxCoord
MaxCoord == 1
\* subpaths of a path
MaxSubPaths == 2
\* hits of one category in a hit-test result
MaxHits == 1
\* bits of the significand of a number: the numbers of the program are IEEE
\* doubles with 53 bits, those of the model round in the same way (to the
\* nearest, ties to even) with fewer bits
MantissaBits == 5

(* Program constants *)

\* fractions are counted in 1/Unit: the 0.001 of the dash gap is one unit
Unit == 1000
\* DISABLED_ALPHA = 0.38
DISABLED_ALPHA == 380
\* CANVAS_MARGIN, in css pixels
CANVAS_MARGIN == 36

CanvasTypes == {"Start", "Preview", "End"}
AppModes == {"SelectPoints", "AddPoints", "SplitSubPaths"}

----------------------------------------------------------------------------
(* Sequences *)

Reverse(seq) == [i \in 1..Len(seq) |-> seq[Len(seq) + 1 - i]]

Last(seq) == seq[Len(seq)]

----------------------------------------------------------------------------
(* Geometry primitives (scripts/common) *)

Pt(x, y) == [x |-> x, y |-> y, q |-> 1]

Mat(a, b, c, d, e, f) == [a |-> a, b |-> b, c |-> c, d |-> d, e |-> e, f |-> f, q |-> 1]

Identity == Mat(1, 0, 0, 1, 0, 0)

fromTranslation(tx, ty) == Mat(1, 0, 0, 1, tx, ty)

fromScaling(sx, sy) == Mat(sx, 0, 0, sy, 0, 0)

\* rotations are multiples of 90 degrees, so cos and sin are integers
Cos(deg) == CASE deg % 360 = 0 -> 1 [] deg % 360 = 180 -> -1 [] OTHER -> 0
Sin(deg) == CASE deg % 360 = 90 -> 1 [] deg % 360 = 270 -> -1 [] OTHER -> 0

fromRotation(deg) == Mat(Cos(deg), Sin(deg), -Sin(deg), Cos(deg), 0, 0)

\* m.dot(n): the matrix product m * n (n is applied to a point first)
Dot(m, n) ==
  [a |-> m.a * n.a + m.c * n.b,
   b |-> m.b * n.a + m.d * n.b,
   c |-> m.a * n.c + m.c * n.d,
   d |-> m.b * n.c + m.d * n.d,
   e |-> m.a * n.e + m.c * n.f + m.e * n.q,
   f |-> m.b * n.e + m.d * n.f + m.f * n.q,
   q |-> m.q * n.q]

Det(m) == m.a * m.d - m.b * m.c

\* m.invert(), for a matrix of non-zero determinant
Invert(m) ==
  [a |-> m.d * m.q, b |-> -m.b * m.q, c |-> -m.c * m.q, d |-> m.a * m.q,
   e |-> m.c * m.f - m.d * m.e,
   f |-> m.b * m.e - m.a * m.f,
   q |-> Det(m)]

\* Matrix.flatten(...matrices) and MathUtil.flattenTransforms(matrices): one
\* matrix that applies the first matrix of the list first
RECURSIVE Flatten(_)
Flatten(ms) ==
  IF ms = <<>> THEN Identity ELSE Dot(Flatten(Tail(ms)), Head(ms))

TransformBy(p, m) ==
  [x |-> m.a * p.x + m.c * p.y + m.e * p.q,
   y |-> m.b * p.x + m.d * p.y + m.f * p.q,
   q |-> m.q * p.q]

\* MathUtil.transformPoint(p, ...matrices): the matrices one after another
RECURSIVE transformPoint(_, _)
transformPoint(p, ms) ==
  IF ms = <<>> THEN p ELSE transformPoint(TransformBy(p, Head(ms)), Tail(ms))

\* two points are the same rational point
SamePoint(p, r) == p.x * r.q = r.x * p.q /\ p.y * r.q = r.y * p.q

Abs(n) == IF n < 0 THEN -n ELSE n

RECURSIVE Gcd(_, _)
Gcd(a, b) == IF b = 0 THEN a ELSE Gcd(b, a % b)

\* the same rational point with the least denominator
LowestTerms(p) ==
  LET g == Gcd(Gcd(Abs(p.x), Abs(p.y)), Abs(p.q))
  IN  [x |-> p.x \div g, y |-> p.y \div g, q |-> p.q \div g]

Points == {Pt(x, y) : x \in 0..MaxCoord, y \in 0..MaxCoord}

\* the positions of the mouse events
ClickPoints == { Pt(0, 0), Pt(MaxCoord, MaxCoord) }

----------------------------------------------------------------------------
(* Layers (scripts/layers).  A layer tree is the sequence of its layers:     *)
(* layer 1 is the VectorLayer, layer i > 1 has its parent before it, the     *)
(* children of a layer are in the order of the sequence, and the id of a     *)
(* layer is its place in the sequence.                                       *)

NoId == 0

GroupParams ==
  { [pivotX |-> 1, pivotY |-> 0, translateX |-> 2, translateY |-> 1,
     rotation |-> 90, scaleX |-> 2, scaleY |-> 1],
    [pivotX |-> 0, pivotY |-> 1, translateX |-> 0, translateY |-> -1,
     rotation |-> 180, scaleX |-> 1, scaleY |-> 3] }

NoGroup ==
  [pivotX |-> 0, pivotY |-> 0, translateX |-> 0, translateY |-> 0,
   rotation |-> 0, scaleX |-> 1, scaleY |-> 1]

\* a command: its kind (M for MoveTo, L for LineTo, Z for ClosePath), its end
\* point and its isSplit flag; its start point is the end point of the command
\* before it
Command(kind, end, isSplit) == [kind |-> kind, end |-> end, isSplit |-> isSplit]

\* an open subpath of two commands: the segment from (0, s) to (1, s)
Segment(s) == << Command("M", Pt(0, s), FALSE), Command("L", Pt(1, s), FALSE) >>

\* pathData: the commands of each subpath, and getPathLength()
PathDatas ==
  { [subPaths |-> [i \in 1..n |-> Segment(i - 1)], length |-> 100] :
      n \in 1..MaxSubPaths }

NoPath == [subPaths |-> <<>>, length |-> 0]

DefaultPaint ==
  [isStroked |-> TRUE, isFilled |-> FALSE, strokeWidth |-> 2,
   trimPathStart |-> 0, trimPathEnd |-> Unit, trimPathOffset |-> 0]

VectorNode(alpha) ==
  [kind |-> "vector", parent |-> 0, alpha |-> alpha, group |-> NoGroup,
   paint |-> DefaultPaint, pathData |-> NoPath]

GroupNode(parent, g) ==
  [kind |-> "group", parent |-> parent, alpha |-> Unit, group |-> g,
   paint |-> DefaultPaint, pathData |-> NoPath]

PathNode(parent, paint, pathData) ==
  [kind |-> "path", parent |-> parent, alpha |-> Unit, group |-> NoGroup,
   paint |-> paint, pathData |-> pathData]

ClipPathNode(parent, pathData) ==
  [kind |-> "clip", parent |-> parent, alpha |-> Unit, group |-> NoGroup,
   paint |-> DefaultPaint, pathData |-> pathData]

Undefined == [defined |-> FALSE]

Layer(nodes) == [defined |-> TRUE, nodes |-> nodes]

\* layer.children: only the VectorLayer and GroupLayers have children
RECURSIVE ChildrenFrom(_, _, _)
ChildrenFrom(vl, i, j) ==
  IF j > Len(vl.nodes) THEN <<>>
  ELSE (IF vl.nodes[j].parent = i THEN <<j>> ELSE <<>>) \o ChildrenFrom(vl, i, j + 1)

Children(vl, i) == ChildrenFrom(vl, i, i + 1)

\* vectorLayer.findLayer(id)
HasLayer(vl, id) == vl.defined /\ id \in 1..Len(vl.nodes)

\* the layer trees of at most n layers whose PathLayers take their paint and
\* pathData from the given sets
NewNodes(t, groups, paints, pathDatas, clips) ==
  UNION { { GroupNode(par, g) : g \in groups }
          \cup { PathNode(par, pt, pd) : pt \in paints, pd \in pathDatas }
          \cup { ClipPathNode(par, pd) : pd \in clips }
        : par \in { i \in 1..Len(t) : t[i].kind \in {"vector", "group"} } }

RECURSIVE TreesOfSize(_, _, _, _, _, _)
TreesOfSize(n, alphas, groups, paints, pathDatas, clips) ==
  IF n = 1 THEN { <<VectorNode(al)>> : al \in alphas }
  ELSE UNION { { Append(t, nd) : nd \in NewNodes(t, groups, paints, pathDatas, clips) }
             : t \in TreesOfSize(n - 1, alphas, groups, paints, pathDatas, clips) }

TreesUpTo(n, alphas, groups, paints, pathDatas, clips) ==
  UNION { TreesOfSize(k, alphas, groups, paints, pathDatas, clips) : k \in 1..n }

----------------------------------------------------------------------------
(* The transform resolver *)

NotFound == [defined |-> FALSE, value |-> <<>>]

Found(ms) == [defined |-> TRUE, value |-> ms]

\* the callback of _.flatMap(parents, ...): five matrices for a GroupLayer
GroupMatricesSwapped(layer) ==
  IF layer.kind # "group" THEN <<>>
  ELSE << fromTranslation(layer.group.translateX, layer.group.translateY),
          fromTranslation(layer.group.pivotX, layer.group.pivotY),
          fromRotation(layer.group.rotation),
          fromScaling(layer.group.scaleX, layer.group.scaleY),
          fromTranslation(-layer.group.pivotX, -layer.group.pivotY) >>

GroupMatrices(layer) ==
  IF layer.kind # "group" THEN <<>>
  ELSE << fromTranslation(layer.group.pivotX, layer.group.pivotY),
          fromTranslation(layer.group.translateX, layer.group.translateY),
          fromRotation(layer.group.rotation),
          fromScaling(layer.group.scaleX, layer.group.scaleY),
          fromTranslation(-layer.group.pivotX, -layer.group.pivotY) >>

RECURSIVE ParentMatrices(_, _)
ParentMatrices(vl, parents) ==
  IF parents = <<>> THEN <<>>
  ELSE GroupMatrices(vl.nodes[Head(parents)]) \o ParentMatrices(vl, Tail(parents))

RECURSIVE getTransformsFn(_, _, _, _)
RECURSIVE FirstOfChildren(_, _, _, _)
\* the loop over current.children: the first child whose result is truthy
\* (an empty list is truthy)
FirstOfChildren(vl, layerId, parents, children) ==
  IF children = <<>> THEN NotFound
  ELSE LET transforms == getTransformsFn(vl, layerId, parents, Head(children))
       IN  IF transforms.defined THEN transforms
           ELSE FirstOfChildren(vl, layerId, parents, Tail(children))

\* a search that gives up after the first child
getTransformsFnFirstChildOnly(vl, layerId, parents, current) ==
  IF current = layerId THEN Found(ParentMatrices(vl, parents))
  ELSE IF Children(vl, current) = <<>> THEN NotFound
  ELSE getTransformsFn(vl, layerId, Append(parents, current),
                       Head(Children(vl, current)))

getTransformsFn(vl, layerId, parents, current) ==
  IF current = layerId THEN Found(ParentMatrices(vl, parents))
  ELSE FirstOfChildren(vl, layerId, Append(parents, current), Children(vl, current))

getTransformsForLayer(vl, layerId) == getTransformsFn(vl, layerId, <<>>, 1)

\* ctx.transform(m) for each m of the list in turn, on a context whose current
\* matrix is ctm: the standard canvas multiplies on the right
RECURSIVE ctxTransformAll(_, _)
ctxTransformAll(ctm, ms) ==
  IF ms = <<>> THEN ctm ELSE ctxTransformAll(Dot(ctm, Head(ms)), Tail(ms))

\* where executeCommands(ctx, commands, transforms) puts the path point p
executeCommandsPoint(p, transforms) ==
  TransformBy(p, ctxTransformAll(Identity, transforms))

(* Results of a method that may raise *)

Raise == [raised |-> TRUE]

Return(v) == [raised |-> FALSE, value |-> v]

\* this.transformsForActiveLayer.reverse() with no reversal
pathPointToDrawingCoordsNoReverse(vl, id, point) ==
  IF ~vl.defined THEN Raise
  ELSE LET transforms == getTransformsForLayer(vl, id)
       IN  IF ~transforms.defined THEN Raise
           ELSE Return(transformPoint(point, <<Flatten(transforms.value)>>))

pathPointToDrawingCoords(vl, id, point) ==
  IF ~vl.defined THEN Raise
  ELSE LET transforms == getTransformsForLayer(vl, id)
       IN  IF ~transforms.defined THEN Raise
           ELSE Return(transformPoint(point, <<Flatten(Reverse(transforms.value))>>))

\* the transformedMousePoint of performHitTest and of calculateProjectionOntoPath
transformedMousePoint(vl, id, mousePoint) ==
  IF ~vl.defined THEN Raise
  ELSE LET transforms == getTransformsForLayer(vl, id)
       IN  IF ~transforms.defined THEN Raise
           ELSE Return(transformPoint(mousePoint,
                         <<Invert(Flatten(Reverse(transforms.value)))>>))

----------------------------------------------------------------------------
(* The canvas component.  Its getters and drawing methods read a record st   *)
(* of the values the variables hold at the time of the call.                 *)

\* cssScale is counted in 1/DEFAULT_VIEWPORT_SIZE: the vector layers have the
\* default viewport size, and resizeAndDraw() sets cssScale to the width of
\* the container divided by it
DEFAULT_VIEWPORT_SIZE == 24

\* this.cssScale before the first resizeAndDraw(): undefined
NoScale == 0

\* this.cssScale after the resizeAndDraw() of ngAfterViewInit:
\* cssContainerWidth is 1
FirstScale == 1

\* this.currentHoverPreviewPath when undefined
NoPreview == [defined |-> FALSE]

State ==
  [canvasType |-> canvasType, isViewInit |-> isViewInit, appMode |-> appMode,
   pathSelector |-> pathSelector, segmentSplitter |-> segmentSplitter,
   shapeSplitter |-> shapeSplitter, selections |-> selections, hover |-> hover,
   vectorLayer |-> vectorLayer, activePathId |-> activePathId,
   morphable |-> morphable, labelPoints |-> labelPoints,
   disabledSubPathIndices |-> disabledSubPathIndices,
   cssScale |-> cssScale, currentHoverPreviewPath |-> currentHoverPreviewPath]

\* get activePathLayer(): undefined (FALSE here) without an active path id or
\* when the id names no layer of the tree
hasActivePathLayer(st) ==
  st.activePathId # NoId /\ HasLayer(st.vectorLayer, st.activePathId)

activePathLayer(st) == st.vectorLayer.nodes[st.activePathId]

shouldDrawLayers(st) == st.vectorLayer.defined /\ st.activePathId # NoId

shouldDisableLayer(st) == st.canvasType = "Preview" /\ ~st.morphable

shouldLabelPoints(st) == st.canvasType # "Preview" \/ st.labelPoints

\* a canvas of any type processes mouse events when it has an active path
shouldProcessMouseEventsAnyCanvas(st) == st.activePathId # NoId

shouldProcessMouseEvents(st) == st.canvasType # "Preview" /\ st.activePathId # NoId

(* Drawing-surface calls *)

Frac(n, d) == [num |-> n, den |-> d]

Op(name, ctx) == [op |-> name, ctx |-> ctx]

\* setupCtxWithViewportCoords(ctx)
setupCtxWithViewportCoords(ctx) == << Op("scale", ctx), Op("clearRect", ctx) >>

\* drawTranslucentOffscreenCtx(ctx, offscreenCtx, alpha)
drawTranslucentOffscreenCtx(ctx, offscreenCtx, alpha) ==
  << Op("save", ctx),
     [op |-> "drawImage", ctx |-> ctx, from |-> offscreenCtx, alpha |-> alpha],
     Op("restore", ctx) >>

\* executeCommands(ctx, commands, transforms)
executeCommands(ctx, commands, transforms) ==
  << Op("save", ctx),
     [op |-> "transform", ctx |-> ctx, matrices |-> transforms],
     Op("beginPath", ctx),
     [op |-> "commands", ctx |-> ctx, commands |-> commands],
     Op("restore", ctx) >>

\* subPath.getCommands(), each command named by its subIdx and cmdIdx
SubPathCommands(pathData, subIdx) ==
  [i \in 1..Len(pathData.subPaths[subIdx + 1]) |->
     [subIdx |-> subIdx, cmdIdx |-> i - 1]]

\* _.flatMap(layer.pathData.getSubPaths(), ...) of draw(): the commands of the
\* subpaths from subIdx on that are (disabled = TRUE) or are not disabled
RECURSIVE ExtractFrom(_, _, _, _)
ExtractFrom(pathData, subIdx, disabledIdxs, disabled) ==
  IF subIdx >= Len(pathData.subPaths) THEN <<>>
  ELSE (IF (subIdx \in disabledIdxs) = disabled
        THEN SubPathCommands(pathData, subIdx) ELSE <<>>)
       \o ExtractFrom(pathData, subIdx + 1, disabledIdxs, disabled)

\* the extractDrawingCommandsFn callbacks of draw()
extractDrawingCommandsFn(st, id, disabled) ==
  IF id # st.activePathId THEN <<>>
  ELSE ExtractFrom(st.vectorLayer.nodes[id].pathData, 0,
                   st.disabledSubPathIndices, disabled)

\* a dash array whose gap lacks the wrap-around of the shown fraction
trimDashNoWrap(paint, pathLength) ==
  IF paint.trimPathStart # 0 \/ paint.trimPathEnd # Unit \/ paint.trimPathOffset # 0
  THEN LET shownFraction == paint.trimPathEnd - paint.trimPathStart
       IN  << shownFraction * pathLength, (Unit - shownFraction + 1) * pathLength >>
  ELSE <<>>

\* the argument of ctx.setLineDash in drawPaths, in 1/Unit
trimDash(paint, pathLength) ==
  IF paint.trimPathStart # 0 \/ paint.trimPathEnd # Unit \/ paint.trimPathOffset # 0
  THEN LET shownFraction ==
             paint.trimPathEnd - paint.trimPathStart
             + (IF paint.trimPathStart > paint.trimPathEnd THEN Unit ELSE 0)
       IN  << shownFraction * pathLength, (Unit - shownFraction + 1) * pathLength >>
  ELSE <<>>

\* a callback that saves the context before it looks at the commands, and
\* returns without restoring it when there are none
drawPathsLayerSavesFirst(st, ctx, id, disabled) ==
  LET layer == st.vectorLayer.nodes[id]
      transforms == getTransformsForLayer(st.vectorLayer, id).value
      commands == extractDrawingCommandsFn(st, id, disabled)
  IN  IF layer.kind = "clip"
      THEN executeCommands(ctx, ExtractFrom(layer.pathData, 0, {}, FALSE), transforms)
           \o << Op("clip", ctx) >>
      ELSE IF layer.kind # "path" THEN <<>>
      ELSE IF commands = <<>> THEN << Op("save", ctx) >>
      ELSE << Op("save", ctx) >>
           \o executeCommands(ctx, commands, transforms)
           \o << [op |-> "setLineDash", ctx |-> ctx,
                  dash |-> trimDash(layer.paint, layer.pathData.length)] >>
           \o (IF layer.paint.isStroked /\ layer.paint.strokeWidth # 0
                  /\ layer.paint.trimPathStart # layer.paint.trimPathEnd
               THEN << Op("stroke", ctx) >> ELSE <<>>)
           \o (IF layer.paint.isFilled THEN << Op("fill", ctx) >> ELSE <<>>)
           \o << Op("restore", ctx) >>

\* what the callback of vectorLayer.walk in drawPaths does for layer id
drawPathsLayer(st, ctx, id, disabled) ==
  LET layer == st.vectorLayer.nodes[id]
      transforms == getTransformsForLayer(st.vectorLayer, id).value
      commands == extractDrawingCommandsFn(st, id, disabled)
  IN  IF layer.kind = "clip"
      THEN executeCommands(ctx, ExtractFrom(layer.pathData, 0, {}, FALSE), transforms)
           \o << Op("clip", ctx) >>
      ELSE IF layer.kind # "path" \/ commands = <<>> THEN <<>>
      ELSE << Op("save", ctx) >>
           \o executeCommands(ctx, commands, transforms)
           \o << [op |-> "setLineDash", ctx |-> ctx,
                  dash |-> trimDash(layer.paint, layer.pathData.length)] >>
           \o (IF layer.paint.isStroked /\ layer.paint.strokeWidth # 0
                  /\ layer.paint.trimPathStart # layer.paint.trimPathEnd
               THEN << Op("stroke", ctx) >> ELSE <<>>)
           \o (IF layer.paint.isFilled THEN << Op("fill", ctx) >> ELSE <<>>)
           \o << Op("restore", ctx) >>

\* vectorLayer.walk(fn): the layers from the given ones down, parents first
RECURSIVE WalkOrder(_, _)
WalkOrder(vl, layers) ==
  IF layers = <<>> THEN <<>>
  ELSE << Head(layers) >> \o WalkOrder(vl, Children(vl, Head(layers)))
       \o WalkOrder(vl, Tail(layers))

RECURSIVE drawPathsOver(_, _, _, _)
drawPathsOver(st, ctx, layers, disabled) ==
  IF layers = <<>> THEN <<>>
  ELSE drawPathsLayer(st, ctx, Head(layers), disabled)
       \o drawPathsOver(st, ctx, Tail(layers), disabled)

\* drawPaths(ctx, extractDrawingCommandsFn)
drawPaths(st, ctx, disabled) ==
  drawPathsOver(st, ctx, WalkOrder(st.vectorLayer, <<1>>), disabled)

(* drawLabeledPoints(ctx): the points it draws, in order.  The radius of a    *)
(* point is left out.                                                         *)

\* subPath.isCollapsing(): the subpath is degenerate, of zero length
isCollapsing(subPath) ==
  \A i \in DOMAIN subPath : SamePoint(subPath[i].end, subPath[1].end)

\* subPath.getCommands().map((cmd, cmdIdx) => ({ cmd, subIdx, cmdIdx }))
PointInfosOf(subPath, subIdx) ==
  [i \in 1..Len(subPath) |-> [cmd |-> subPath[i], subIdx |-> subIdx, cmdIdx |-> i - 1]]

\* the concatenation of the lists of a list
RECURSIVE Flattened(_)
Flattened(lists) ==
  IF lists = <<>> THEN <<>> ELSE Head(lists) \o Flattened(Tail(lists))

\* pathDataPointInfos: the subpaths that are not collapsing are numbered as
\* filter() leaves them, and the points are in reverse order
pathDataPointInfos(path) ==
  LET shown == SelectSeq(path.subPaths, LAMBDA subPath : ~isCollapsing(subPath))
  IN  Reverse(Flattened([k \in 1..Len(shown) |-> PointInfosOf(shown[k], k - 1)]))

\* _.remove(list, test) followed by list.push(...removed)
MovedToEnd(list, Test(_)) ==
  SelectSeq(list, LAMBDA e : ~Test(e)) \o SelectSeq(list, Test)

\* the path drawLabeledPoints takes the points from
labeledPath(st) ==
  IF st.currentHoverPreviewPath.defined THEN st.currentHoverPreviewPath.path
  ELSE activePathLayer(st).pathData

\* draggedCommandIndex: the index of the point that a triggered drag of the
\* path selector moves (the point hit at pointer-down), or none
getDraggedCommandIndex(st) ==
  IF st.pathSelector.defined /\ st.pathSelector.state = "Dragging"
  THEN st.pathSelector.hit
  ELSE <<>>

\* drawLabeledPoints(ctx): the points of the selected subpaths are drawn after
\* the others and those of the hovered subpath last; a point of a selected or
\* hovered subpath is drawn with its number
drawLabeledPoints(st) ==
  IF (st.canvasType = "Preview" /\ ~shouldLabelPoints(st)) \/ st.activePathId = NoId
  THEN Return(<<>>)
  ELSE IF ~hasActivePathLayer(st) THEN Raise
  ELSE
    LET sels == st.selections
        hv == st.hover
        subPathSelected(info) ==
          \E i \in DOMAIN sels : sels[i].type = "SubPath" /\ sels[i].subIdx = info.subIdx
        commandSelected(info) ==
          \/ subPathSelected(info)
          \/ \E i \in DOMAIN sels :
               /\ sels[i].subIdx = info.subIdx
               /\ "cmdIdx" \in DOMAIN sels[i]
               /\ sels[i].cmdIdx = info.cmdIdx
        isPointInfoSelectedFn(info) ==
          subPathSelected(info) \/ \E i \in DOMAIN sels : sels[i].subIdx = info.subIdx
        isPointInfoHoveringFn(info) == hv.defined /\ info.subIdx = hv.subIdx
        pointHovered(info) ==
          /\ hv.defined
          /\ hv.type = "Point"
          /\ info.subIdx = hv.subIdx
          /\ info.cmdIdx = hv.cmdIdx
        infos == pathDataPointInfos(labeledPath(st))
        removedSelectedCommands == SelectSeq(infos, commandSelected)
        afterSelected ==
          MovedToEnd(SelectSeq(infos, LAMBDA e : ~commandSelected(e)),
                     isPointInfoSelectedFn)
          \o removedSelectedCommands
        removedHoverCommands == SelectSeq(afterSelected, pointHovered)
        ordered ==
          MovedToEnd(SelectSeq(afterSelected, LAMBDA e : ~pointHovered(e)),
                     isPointInfoHoveringFn)
          \o removedHoverCommands
        draggedCommandIndex == getDraggedCommandIndex(st)
        skipped(info) ==
          /\ draggedCommandIndex # <<>>
          /\ info.subIdx = draggedCommandIndex[1].subIdx
          /\ info.cmdIdx = draggedCommandIndex[1].cmdIdx
        shown == SelectSeq(ordered, LAMBDA e : ~skipped(e))
        transforms == getTransformsForLayer(st.vectorLayer, st.activePathId)
    IN  Return([i \in 1..Len(shown) |->
                 [cmd |-> shown[i].cmd,
                  subIdx |-> shown[i].subIdx,
                  cmdIdx |-> shown[i].cmdIdx,
                  point |-> transformPoint(shown[i].cmd.end,
                                           <<Flatten(Reverse(transforms.value))>>),
                  text |-> IF isPointInfoHoveringFn(shown[i])
                              \/ isPointInfoSelectedFn(shown[i])
                           THEN << shown[i].cmdIdx + 1 >> ELSE <<>>]])

\* drawOverlays() raises when the active path id names no layer of the tree:
\* transformsForActiveLayer is then undefined, and drawLabeledPoints, which
\* only a Preview canvas with point labels switched off leaves early, calls
\* reverse() on it (a non-Preview canvas raises before, on this.activePath)
drawOverlaysRaises(st) ==
  /\ ~getTransformsForLayer(st.vectorLayer, st.activePathId).defined
  /\ (st.canvasType # "Preview" \/ shouldLabelPoints(st))

\* drawLabeledPoint(ctx, point, radius, color, text)
drawLabeledPoint(ctx, info) ==
  << Op("save", ctx),
     [op |-> "labeledPoint", ctx |-> ctx, subIdx |-> info.subIdx, cmdIdx |-> info.cmdIdx],
     Op("restore", ctx) >>

\* the calls of drawLabeledPoints(ctx)
labeledPointCalls(st, ctx) ==
  LET points == drawLabeledPoints(st)
  IN  IF points.raised THEN <<>>
      ELSE Flattened([i \in 1..Len(points.value) |-> drawLabeledPoint(ctx, points.value[i])])

\* the pixel grid of drawOverlays(), drawn when cssScale > 4
pixelGrid(st, ctx) ==
  IF st.cssScale > 4 * DEFAULT_VIEWPORT_SIZE
  THEN << Op("save", ctx), Op("fillRect", ctx), Op("restore", ctx) >>
  ELSE <<>>

\* drawOverlays(): the calls on the overlay surface and whether it raised.
\* The highlights, points and previews it draws are one "overlays" entry.
drawOverlays(st) ==
  IF ~st.isViewInit THEN [ops |-> <<>>, raised |-> FALSE]
  ELSE LET start == << Op("save", "overlay") >> \o setupCtxWithViewportCoords("overlay")
       IN  IF shouldDrawLayers(st) /\ drawOverlaysRaises(st)
           THEN [ops |-> start, raised |-> TRUE]
           ELSE [ops |-> start
                         \o (IF shouldDrawLayers(st)
                             THEN << Op("overlays", "overlay") >> ELSE <<>>)
                         \o << Op("restore", "overlay") >>
                         \o pixelGrid(st, "overlay"),
                 raised |-> FALSE]

\* the calls of a drawOverlays() that has not raised, with those of
\* drawLabeledPoints after the "overlays" entry of the other functions
RECURSIVE overlayCallsFrom(_, _)
overlayCallsFrom(st, calls) ==
  IF calls = <<>> THEN <<>>
  ELSE << Head(calls) >>
       \o (IF Head(calls).op = "overlays" THEN labeledPointCalls(st, Head(calls).ctx)
           ELSE <<>>)
       \o overlayCallsFrom(st, Tail(calls))

\* currentAlpha of draw(), in 1/(Unit * Unit)
currentAlpha(st) ==
  (IF shouldDisableLayer(st) THEN DISABLED_ALPHA ELSE Unit)
  * (IF st.vectorLayer.defined THEN st.vectorLayer.nodes[1].alpha ELSE Unit)

\* a draw() that takes the offscreen pass whatever the alpha
usesOffscreenLayerAlways(st) == TRUE

\* currentAlpha < 1
usesOffscreenLayer(st) == currentAlpha(st) < Unit * Unit

\* a draw() that draws the enabled subpaths before the disabled ones
drawLayersEnabledFirst(st, layerCtx) ==
  LET hasDisabledSubPaths == st.disabledSubPathIndices # {}
      subPathCtx == IF hasDisabledSubPaths THEN "offscreenSubPath" ELSE layerCtx
  IN  drawPaths(st, layerCtx, FALSE)
      \o (IF hasDisabledSubPaths
          THEN << Op("save", subPathCtx) >> \o setupCtxWithViewportCoords(subPathCtx)
          ELSE <<>>)
      \o drawPaths(st, subPathCtx, TRUE)
      \o (IF hasDisabledSubPaths
          THEN drawTranslucentOffscreenCtx(layerCtx, subPathCtx, Frac(DISABLED_ALPHA, Unit))
               \o << Op("restore", subPathCtx) >>
          ELSE <<>>)

\* the body of "if (this.shouldDrawLayers)" in draw()
drawLayers(st, layerCtx) ==
  LET hasDisabledSubPaths == st.disabledSubPathIndices # {}
      subPathCtx == IF hasDisabledSubPaths THEN "offscreenSubPath" ELSE layerCtx
  IN  (IF hasDisabledSubPaths
       THEN << Op("save", subPathCtx) >> \o setupCtxWithViewportCoords(subPathCtx)
       ELSE <<>>)
      \o drawPaths(st, subPathCtx, TRUE)
      \o (IF hasDisabledSubPaths
          THEN drawTranslucentOffscreenCtx(layerCtx, subPathCtx, Frac(DISABLED_ALPHA, Unit))
               \o << Op("restore", subPathCtx) >>
          ELSE <<>>)
      \o drawPaths(st, layerCtx, FALSE)

\* draw(): the calls on the drawing surfaces and whether it raised
draw(st) ==
  IF ~st.isViewInit THEN [ops |-> <<>>, raised |-> FALSE]
  ELSE LET offscreen == usesOffscreenLayer(st)
           layerCtx == IF offscreen THEN "offscreenLayer" ELSE "rendering"
           overlays == drawOverlays(st)
       IN  [ops |->
              << Op("save", "rendering") >> \o setupCtxWithViewportCoords("rendering")
              \o (IF offscreen
                  THEN << Op("save", "offscreenLayer") >>
                       \o setupCtxWithViewportCoords("offscreenLayer")
                  ELSE <<>>)
              \o (IF shouldDrawLayers(st) THEN drawLayers(st, layerCtx) ELSE <<>>)
              \o (IF offscreen
                  THEN drawTranslucentOffscreenCtx("rendering", "offscreenLayer",
                                                   Frac(currentAlpha(st), Unit * Unit))
                       \o << Op("restore", "offscreenLayer") >>
                  ELSE <<>>)
              \o << Op("restore", "rendering") >>
              \o overlays.ops,
            raised |-> overlays.raised]

----------------------------------------------------------------------------
(* The path mutator (scripts/paths): path.mutate(). ... .build(), from the     *)
(* description of its operations.  A closed subpath ends with a ClosePath      *)
(* whose end point is the point of its MoveTo.                                 *)

\* subPath.isClosed()
isClosed(subPath) == Len(subPath) > 1 /\ subPath[Len(subPath)].kind = "Z"

\* the point half way between two points
Midpoint(a, b) ==
  LowestTerms([x |-> a.x * b.q + b.x * a.q, y |-> a.y * b.q + b.y * a.q,
               q |-> 2 * a.q * b.q])

\* subIdx and cmdIdx name a command of the path that draws a segment
HasSegment(path, subIdx, cmdIdx) ==
  /\ subIdx \in 0..(Len(path.subPaths) - 1)
  /\ cmdIdx \in 1..(Len(path.subPaths[subIdx + 1]) - 1)

InsertAt(seq, i, e) == SubSeq(seq, 1, i - 1) \o <<e>> \o SubSeq(seq, i, Len(seq))

RemoveAt(seq, i) == SubSeq(seq, 1, i - 1) \o SubSeq(seq, i + 1, Len(seq))

\* a split that flags both halves of the segment
splitCommandInHalfFlagsBoth(path, subIdx, cmdIdx) ==
  IF ~HasSegment(path, subIdx, cmdIdx) THEN path
  ELSE LET subPath == path.subPaths[subIdx + 1]
           half == Command("L", Midpoint(subPath[cmdIdx].end, subPath[cmdIdx + 1].end),
                           TRUE)
       IN  [path EXCEPT !.subPaths[subIdx + 1] =
              InsertAt([subPath EXCEPT ![cmdIdx + 1].isSplit = TRUE], cmdIdx + 1, half)]

\* splitCommandInHalf(subIdx, cmdIdx): a command that ends at the midpoint of
\* the segment is inserted before the command, flagged isSplit
splitCommandInHalf(path, subIdx, cmdIdx) ==
  IF ~HasSegment(path, subIdx, cmdIdx) THEN path
  ELSE LET subPath == path.subPaths[subIdx + 1]
           half == Command("L", Midpoint(subPath[cmdIdx].end, subPath[cmdIdx + 1].end),
                           TRUE)
       IN  [path EXCEPT !.subPaths[subIdx + 1] = InsertAt(subPath, cmdIdx + 1, half)]

\* unsplitCommand(subIdx, cmdIdx): a command flagged isSplit is removed, and the
\* command after it draws the merged segment; nothing happens to another command
unsplitCommand(path, subIdx, cmdIdx) ==
  IF ~HasSegment(path, subIdx, cmdIdx) THEN path
  ELSE LET subPath == path.subPaths[subIdx + 1]
       IN  IF ~subPath[cmdIdx + 1].isSplit \/ cmdIdx + 1 = Len(subPath) THEN path
           ELSE [path EXCEPT !.subPaths[subIdx + 1] = RemoveAt(subPath, cmdIdx + 1)]

\* the commands of a closed subpath with the end points (and their isSplit
\* flags) of its drawing commands taken from from[k]: command k + 1 gets those
\* of command from[k] + 1, and the MoveTo the end point of the new last command
Rearranged(subPath, from) ==
  LET m == Len(subPath) - 1
  IN  [i \in 1..(m + 1) |->
         IF i = 1 THEN Command("M", subPath[from[m] + 1].end, FALSE)
         ELSE Command(subPath[i].kind, subPath[from[i - 1] + 1].end,
                      subPath[from[i - 1] + 1].isSplit)]

\* a shift that moves the end point of each of the n commands, the MoveTo
\* included, to the command before it
shiftSubPathForwardAllCommands(path, subIdx) ==
  IF ~(subIdx \in 0..(Len(path.subPaths) - 1)) THEN path
  ELSE LET subPath == path.subPaths[subIdx + 1]
           n == Len(subPath)
       IN  IF ~isClosed(subPath) THEN path
           ELSE [path EXCEPT !.subPaths[subIdx + 1] =
                   [i \in 1..n |-> Command(subPath[i].kind, subPath[(i % n) + 1].end,
                                           subPath[(i % n) + 1].isSplit)]]

\* shiftSubPathForward(subIdx): the starting point of a closed subpath moves to
\* the end point of its next command
shiftSubPathForward(path, subIdx) ==
  IF ~(subIdx \in 0..(Len(path.subPaths) - 1)) THEN path
  ELSE LET subPath == path.subPaths[subIdx + 1]
           m == Len(subPath) - 1
       IN  IF ~isClosed(subPath) THEN path
           ELSE [path EXCEPT !.subPaths[subIdx + 1] =
                   Rearranged(subPath, [k \in 1..m |-> (k % m) + 1])]

\* shiftSubPathBack(subIdx): the starting point of a closed subpath moves to
\* the end point of the command before its last one
shiftSubPathBack(path, subIdx) ==
  IF ~(subIdx \in 0..(Len(path.subPaths) - 1)) THEN path
  ELSE LET subPath == path.subPaths[subIdx + 1]
           m == Len(subPath) - 1
       IN  IF ~isClosed(subPath) THEN path
           ELSE [path EXCEPT !.subPaths[subIdx + 1] =
                   Rearranged(subPath, [k \in 1..m |-> ((k + m - 2) % m) + 1])]

\* reverseSubPath(subIdx): the points of the subpath in the opposite order; a
\* closed subpath keeps its starting point
reverseSubPath(path, subIdx) ==
  IF ~(subIdx \in 0..(Len(path.subPaths) - 1)) THEN path
  ELSE LET subPath == path.subPaths[subIdx + 1]
           n == Len(subPath)
       IN  [path EXCEPT !.subPaths[subIdx + 1] =
              IF isClosed(subPath)
              THEN Rearranged(subPath,
                              [k \in 1..(n - 1) |-> IF k = n - 1 THEN k ELSE n - 1 - k])
              ELSE [i \in 1..n |->
                      Command(subPath[i].kind, subPath[n + 1 - i].end, FALSE)]]

\* this.activePath.mutate(). ... .build() of the hover subscription: the path
\* the hover previews
HoverPreview(path, h) ==
  IF h.type = "Split" THEN <<splitCommandInHalf(path, h.subIdx, h.cmdIdx)>>
  ELSE IF h.type = "Unsplit" THEN <<unsplitCommand(path, h.subIdx, h.cmdIdx)>>
  ELSE IF h.type = "Reverse" THEN <<reverseSubPath(path, h.subIdx)>>
  ELSE IF h.type = "ShiftForward" THEN <<shiftSubPathForward(path, h.subIdx)>>
  ELSE IF h.type = "ShiftBack" THEN <<shiftSubPathBack(path, h.subIdx)>>
  ELSE <<>>

----------------------------------------------------------------------------
(* Values of the services *)

\* the path of the PathLayers of the interaction model: two subpaths
UiPath == [subPaths |-> << Segment(0), Segment(1) >>, length |-> 100]

SubIdxs == 0..(Len(UiPath.subPaths) - 1)

\* selections other parts of the application put into the selection service
SelectionRecords ==
  { [subIdx |-> s, source |-> "End", type |-> "SubPath"] : s \in SubIdxs }

SelectionLists ==
  { <<>> } \cup { <<a>> : a \in SelectionRecords }
  \cup { <<a, b>> : <<a, b>> \in { ab \in SelectionRecords \X SelectionRecords :
                                      ab[1] # ab[2] } }

NoHover == [defined |-> FALSE]

Hovers ==
  { [defined |-> TRUE, type |-> "Point", subIdx |-> 0, cmdIdx |-> 0, source |-> c] :
      c \in {"Start"} }

NoController == [defined |-> FALSE]

\* new PathSelector(this)
NewPathSelector ==
  [defined |-> TRUE, state |-> "Idle", mouseDown |-> <<>>, hit |-> <<>>,
   additive |-> FALSE, lastKnownMouseLocation |-> <<>>, snaps |-> FALSE]

\* new SegmentSplitter(this, restrictToSubIdx); restrictToSubIdx is <<>> when
\* undefined
NewSegmentSplitter(restrictToSubIdx) ==
  [defined |-> TRUE, restrictToSubIdx |-> restrictToSubIdx,
   lastKnownMouseLocation |-> <<>>]

\* new ShapeSplitter(this)
NewShapeSplitter ==
  [defined |-> TRUE, initialProjection |-> <<>>, finalProjection |-> <<>>,
   lastKnownMouseLocation |-> <<>>]

\* a callback that never restricts the segment splitter
restrictToSubIdxNone(sels) == <<>>

\* Array.from(subIdxs)[0] of the app-mode callback: the subIdx of the first
\* selection
restrictToSubIdxOf(sels) == IF sels = <<>> THEN <<>> ELSE << sels[1].subIdx >>

\* the condition under which the app-mode callback makes a SegmentSplitter
wantsSegmentSplitter(st) ==
  \/ st.appMode = "AddPoints"
  \/ /\ st.appMode = "SplitSubPaths"
     /\ hasActivePathLayer(st)
     /\ activePathLayer(st).paint.isStroked

\* the condition under which the app-mode callback makes a ShapeSplitter
wantsShapeSplitter(st) ==
  /\ st.appMode = "SplitSubPaths"
  /\ hasActivePathLayer(st)
  /\ activePathLayer(st).paint.isFilled

\* a callback that resets the selections in every mode
keepsSelectionsNever(mode) == FALSE

\* "if (this.appMode !== AppMode.AddPoints) this.selectionService.reset()"
keepsSelections(mode) == mode = "AddPoints"

----------------------------------------------------------------------------
(* The handlers *)

\* the id of a PathLayer of the tree, or an id that names no layer of it
ActiveIdOk(vl, id) ==
  IF id = NoId \/ ~HasLayer(vl, id) THEN TRUE ELSE vl.nodes[id].kind = "path"

\* the end of a handler that redraws with draw()
Drawn(st, name) ==
  LET drawn == draw(st)
  IN  /\ ops' = drawn.ops
      /\ error' = drawn.raised
      /\ last' = name

\* the end of a handler that redraws with drawOverlays()
OverlaysDrawn(st, name) ==
  LET drawn == drawOverlays(st)
  IN  /\ ops' = drawn.ops
      /\ error' = drawn.raised
      /\ last' = name

\* ngAfterViewInit(): the subscriptions are made and resizeAndDraw() draws
ngAfterViewInit ==
  /\ ~isViewInit
  /\ ~appModePending
  /\ isViewInit' = TRUE
  /\ cssScale' = FirstScale
  /\ Drawn([State EXCEPT !.isViewInit = TRUE, !.cssScale = FirstScale],
           [op |-> "ngAfterViewInit"])
  /\ UNCHANGED <<canvasType, appMode, appModePending, pathSelector, segmentSplitter,
                 shapeSplitter, selections, hover, vectorLayer, activePathId,
                 morphable, labelPoints, disabledSubPathIndices,
                 currentHoverPreviewPath>>

\* the state service replaces the layer tree; the subscription of
\* getVectorLayerObservable redraws
SetVectorLayer(vl) ==
  /\ ~appModePending
  /\ ActiveIdOk(vl, activePathId)
  /\ vectorLayer' = vl
  /\ Drawn([State EXCEPT !.vectorLayer = vl], [op |-> "draw"])
  /\ UNCHANGED <<canvasType, isViewInit, appMode, appModePending, pathSelector,
                 segmentSplitter, shapeSplitter, selections, hover, activePathId,
                 morphable, labelPoints, disabledSubPathIndices, cssScale,
                 currentHoverPreviewPath>>

\* the state service changes the active path id; the subscription of
\* getActivePathIdObservable redraws
SetActivePathId(id) ==
  /\ ~appModePending
  /\ ActiveIdOk(vectorLayer, id)
  /\ activePathId' = id
  /\ Drawn([State EXCEPT !.activePathId = id], [op |-> "draw"])
  /\ UNCHANGED <<canvasType, isViewInit, appMode, appModePending, pathSelector,
                 segmentSplitter, shapeSplitter, selections, hover, vectorLayer,
                 morphable, labelPoints, disabledSubPathIndices, cssScale,
                 currentHoverPreviewPath>>

\* another part of the application sets the selections; the subscription of
\* a non-Preview canvas redraws the overlays
SetSelections(sels) ==
  /\ ~appModePending
  /\ selections' = sels
  /\ IF canvasType # "Preview"
     THEN OverlaysDrawn([State EXCEPT !.selections = sels], [op |-> "drawOverlays"])
     ELSE /\ last' = [op |-> "drawOverlays"]
          /\ UNCHANGED <<ops, error>>
  /\ UNCHANGED <<canvasType, isViewInit, appMode, appModePending, pathSelector,
                 segmentSplitter, shapeSplitter, hover, vectorLayer, activePathId,
                 morphable, labelPoints, disabledSubPathIndices, cssScale,
                 currentHoverPreviewPath>>

\* a subscription that hands every hover to updateCurrentHoverFn
HoverToPreviewAll(st, h) == h

\* the hover the hover subscription hands to updateCurrentHoverFn: none for no
\* hover and for a hover of another canvas that is not a Point hover
HoverToPreview(st, h) ==
  IF ~h.defined THEN NoHover
  ELSE IF h.source # st.canvasType /\ h.type # "Point" THEN NoHover
  ELSE h

\* the previewPath of updateCurrentHoverFn(hover); this.activePath.mutate()
\* raises a TypeError when there is no active path layer
updateCurrentHoverFn(st, h) ==
  IF shouldDrawLayers(st) /\ h.defined
  THEN IF ~hasActivePathLayer(st) THEN Raise
       ELSE LET preview == HoverPreview(activePathLayer(st).pathData, h)
            IN  Return(IF preview = <<>> THEN NoPreview
                       ELSE [defined |-> TRUE, path |-> preview[1]])
  ELSE Return(NoPreview)

\* another part of the application sets or clears the hover; the subscription
\* of a non-Preview canvas sets the preview path and redraws the overlays
SetHover(h) ==
  /\ ~appModePending
  /\ hover' = h
  /\ IF isViewInit /\ canvasType # "Preview"
     THEN LET preview == updateCurrentHoverFn(State, HoverToPreview(State, h))
          IN  IF preview.raised
              THEN /\ last' = [op |-> "drawOverlays", hover |-> h]
                   /\ error' = TRUE
                   /\ UNCHANGED <<currentHoverPreviewPath, ops>>
              ELSE /\ currentHoverPreviewPath' = preview.value
                   /\ OverlaysDrawn([State EXCEPT !.hover = h,
                                      !.currentHoverPreviewPath = preview.value],
                                    [op |-> "drawOverlays", hover |-> h])
     ELSE /\ last' = [op |-> "drawOverlays", hover |-> h]
          /\ UNCHANGED <<currentHoverPreviewPath, ops, error>>
  /\ UNCHANGED <<canvasType, isViewInit, appMode, appModePending, pathSelector,
                 segmentSplitter, shapeSplitter, selections, vectorLayer,
                 activePathId, morphable, labelPoints, disabledSubPathIndices,
                 cssScale>>

\* appModeService.setAppMode(mode) by another part of the application: a
\* non-Preview canvas that has subscribed is notified
SetAppMode(mode) ==
  /\ ~appModePending
  /\ appMode' = mode
  /\ appModePending' = (isViewInit /\ canvasType # "Preview")
  /\ last' = [op |-> "setAppMode"]
  /\ UNCHANGED <<canvasType, isViewInit, pathSelector, segmentSplitter,
                 shapeSplitter, selections, hover, vectorLayer, activePathId,
                 morphable, labelPoints, disabledSubPathIndices, cssScale,
                 currentHoverPreviewPath, ops, error>>

\* the callback of the appModeService subscription of a non-Preview canvas
AppModeNotification ==
  /\ appModePending
  /\ appModePending' = FALSE
  /\ segmentSplitter' =
       IF wantsSegmentSplitter(State)
       THEN NewSegmentSplitter(restrictToSubIdxOf(selections)) ELSE NoController
  /\ pathSelector' =
       IF appMode = "SelectPoints" THEN NewPathSelector ELSE NoController
  /\ shapeSplitter' =
       IF wantsShapeSplitter(State) THEN NewShapeSplitter ELSE NoController
  /\ selections' = IF keepsSelections(appMode) THEN selections ELSE <<>>
  /\ hover' = NoHover
  /\ Drawn([State EXCEPT !.segmentSplitter = segmentSplitter',
                         !.pathSelector = pathSelector',
                         !.shapeSplitter = shapeSplitter',
                         !.selections = selections',
                         !.hover = NoHover],
           [op |-> "appMode", mode |-> appMode])
  /\ UNCHANGED <<canvasType, isViewInit, appMode, vectorLayer, activePathId,
                 morphable, labelPoints, disabledSubPathIndices, cssScale,
                 currentHoverPreviewPath>>

(* Hit testing *)

\* performHitTest(mousePoint, opts): the call of activePath.hitTest it makes --
\* the point in path coordinates and the categories to test -- unless it raises
performHitTest(st, mousePoint, opts) ==
  LET point == transformedMousePoint(st.vectorLayer, st.activePathId, mousePoint)
  IN  IF point.raised THEN Raise
      ELSE Return([point |-> point.value,
                   isPointInRangeFn |-> ~opts.noPoints,
                   isSegmentInRangeFn |-> ~opts.noSegments,
                   findShapesInRange |-> activePathLayer(st).paint.isFilled /\ ~opts.noShapes])

Hits(pathData) ==
  { [subIdx |-> s, cmdIdx |-> 0] : s \in 0..(Len(pathData.subPaths) - 1) }

HitLists(pathData) ==
  UNION { [1..n -> Hits(pathData)] : n \in 0..MaxHits }

\* Path.hitTest(point, opts): some hits in each category that is tested, none
\* in the others; isHit says that there is a hit
HitResults(pathData, call) ==
  { [isHit |-> seg \o shp \o pts # <<>>,
     segmentHits |-> seg, shapeHits |-> shp, endPointHits |-> pts] :
      seg \in IF call.isSegmentInRangeFn THEN HitLists(pathData) ELSE { <<>> },
      shp \in IF call.findShapesInRange THEN HitLists(pathData) ELSE { <<>> },
      pts \in IF call.isPointInRangeFn THEN HitLists(pathData) ELSE { <<>> } }

\* a hit-test result as the handlers' records keep it: of each category, the
\* subIdx of its last hit, if it has one
LastSubIdx(hits) == IF hits = <<>> THEN <<>> ELSE << hits[Len(hits)].subIdx >>

LastHits(hitResult) ==
  [isHit |-> hitResult.isHit,
   segmentHit |-> LastSubIdx(hitResult.segmentHits),
   shapeHit |-> LastSubIdx(hitResult.shapeHits),
   endPointHit |-> LastSubIdx(hitResult.endPointHits)]

\* a handler that takes the first hit
mostRelevantHitFirst(hitResult) ==
  Head(hitResult.segmentHits \o hitResult.shapeHits \o hitResult.endPointHits)

\* _.last([].concat(segmentHits, shapeHits, endPointHits))
mostRelevantHit(hitResult) ==
  Last(hitResult.segmentHits \o hitResult.shapeHits \o hitResult.endPointHits)

\* onDoubleClick(event) on a canvas that processes mouse events, in
\* SelectPoints mode: the hit test raises, or misses, or its last hit is selected
\* and the AddPoints mode requested
DoubleClickSelect(mousePoint) ==
  IF ~hasActivePathLayer(State)
  THEN /\ error' = TRUE
       /\ last' = [op |-> "onDoubleClick", raised |-> TRUE]
       /\ UNCHANGED <<selections, appMode, appModePending, ops>>
  ELSE LET noSegments == ~activePathLayer(State).paint.isStroked
           call == performHitTest(State, mousePoint,
                     [noPoints |-> FALSE, noSegments |-> noSegments, noShapes |-> FALSE])
       IN  \E hitResult \in HitResults(activePathLayer(State).pathData, call.value) :
             IF hitResult.isHit
             THEN /\ selections' = << [subIdx |-> mostRelevantHit(hitResult).subIdx,
                                       source |-> canvasType,
                                       type |-> "SubPath"] >>
                  /\ appMode' = "AddPoints"
                  /\ appModePending' = TRUE
                  /\ OverlaysDrawn([State EXCEPT !.selections = selections',
                                                 !.appMode = "AddPoints"],
                                   [op |-> "onDoubleClick", raised |-> FALSE,
                                    hitResult |-> LastHits(hitResult)])
             ELSE /\ error' = FALSE
                  /\ last' = [op |-> "onDoubleClick", raised |-> FALSE,
                              hitResult |-> LastHits(hitResult)]
                  /\ UNCHANGED <<selections, appMode, appModePending, ops>>

\* onDoubleClick(event)
onDoubleClick(mousePoint) ==
  /\ isViewInit
  /\ ~appModePending
  /\ IF shouldProcessMouseEvents(State) /\ appMode = "SelectPoints"
     THEN DoubleClickSelect(mousePoint)
     ELSE /\ error' = FALSE
          /\ last' = [op |-> "onDoubleClick", raised |-> FALSE]
          /\ UNCHANGED <<selections, appMode, appModePending, ops>>
  /\ UNCHANGED <<canvasType, isViewInit, pathSelector, segmentSplitter,
                 shapeSplitter, hover, vectorLayer, activePathId, morphable,
                 labelPoints, disabledSubPathIndices, cssScale,
                 currentHoverPreviewPath>>

(* Mouse events *)

DRAG_TRIGGER_TOUCH_SLOP == 6

\* this.canvasContainer.offset()
CanvasOffset == [left |-> 1, top |-> 1]

\* the MouseEvents of the model: pageX, pageY and shiftKey || metaKey
MouseEvents ==
  [pageX : {1, 6, 8}, pageY : {2}, shiftKey : {FALSE}]

\* a conversion that leaves cssScale out
mouseEventToPointUnscaled(st, event) ==
  Pt(event.pageX - CanvasOffset.left, event.pageY - CanvasOffset.top)

\* mouseEventToPoint(event): (page - offset) / cssScale
mouseEventToPoint(st, event) ==
  LowestTerms([x |-> (event.pageX - CanvasOffset.left) * DEFAULT_VIEWPORT_SIZE,
               y |-> (event.pageY - CanvasOffset.top) * DEFAULT_VIEWPORT_SIZE,
               q |-> st.cssScale])

\* the square of the distance of two points
DistanceSq(a, b) ==
  Frac((a.x * b.q - b.x * a.q) * (a.x * b.q - b.x * a.q)
         + (a.y * b.q - b.y * a.q) * (a.y * b.q - b.y * a.q),
       (a.q * b.q) * (a.q * b.q))

\* a threshold that is not divided by cssScale
dragTriggerTouchSlopUnscaled(st) == Frac(DRAG_TRIGGER_TOUCH_SLOP, 1)

\* get dragTriggerTouchSlop(): DRAG_TRIGGER_TOUCH_SLOP / this.cssScale
dragTriggerTouchSlop(st) ==
  LET g == Gcd(DRAG_TRIGGER_TOUCH_SLOP * DEFAULT_VIEWPORT_SIZE, st.cssScale)
  IN  Frac((DRAG_TRIGGER_TOUCH_SLOP * DEFAULT_VIEWPORT_SIZE) \div g, st.cssScale \div g)

\* a distance, given by its square, is greater than a threshold
Exceeds(distanceSq, threshold) ==
  distanceSq.num * threshold.den * threshold.den
    > threshold.num * threshold.num * distanceSq.den

\* the controller the mouse handlers hand the point to;
\* this.activePathLayer.isStroked() raises when there is no active path layer
mouseEventTarget(st) ==
  IF st.appMode = "SelectPoints" THEN Return("pathSelector")
  ELSE IF st.appMode = "AddPoints" THEN Return("segmentSplitter")
  ELSE IF ~hasActivePathLayer(st) THEN Raise
  ELSE IF activePathLayer(st).paint.isStroked THEN Return("segmentSplitter")
  ELSE Return("shapeSplitter")

\* the variables a mouse handler leaves alone whatever it does
UnchangedByMouse ==
  UNCHANGED <<canvasType, isViewInit, appMode, appModePending, hover,
              vectorLayer, activePathId, morphable, labelPoints,
              disabledSubPathIndices, cssScale, currentHoverPreviewPath>>

\* the record of a mouse handler in last
Handled(name, event, fields) ==
  [f \in {"op", "event"} \cup DOMAIN fields |->
     IF f = "op" THEN name ELSE IF f = "event" THEN event ELSE fields[f]]

\* a handler that returns at once, or ends with a TypeError, changing nothing
MouseNothing(name, event, fields, raised) ==
  /\ last' = Handled(name, event, fields)
  /\ error' = raised
  /\ UNCHANGED <<pathSelector, segmentSplitter, shapeSplitter, selections, ops>>

(* The controllers (scripts/...): PathSelector *)

\* pathSelector.onMouseDown(mouseDown, isShiftOrMetaPressed): the hit test for
\* an existing point; a hit arms a drag
PathSelectorDown(name, event, p) ==
  LET call == performHitTest(State, p,
                [noPoints |-> FALSE, noSegments |-> TRUE, noShapes |-> TRUE])
      rec == [controller |-> "pathSelector", point |-> p]
  IN  IF call.raised
      THEN MouseNothing(name, event, rec @@ [raised |-> TRUE], TRUE)
      ELSE \E hitResult \in HitResults(activePathLayer(State).pathData, call.value) :
             /\ pathSelector' =
                  IF hitResult.endPointHits # <<>>
                  THEN [pathSelector EXCEPT
                          !.state = "PointerDown",
                          !.mouseDown = <<p>>,
                          !.hit = <<Last(hitResult.endPointHits)>>,
                          !.additive = event.shiftKey]
                  ELSE [pathSelector EXCEPT !.state = "Idle"]
             /\ last' = Handled(name, event, rec @@ [raised |-> FALSE])
             /\ error' = FALSE
             /\ UNCHANGED <<segmentSplitter, shapeSplitter, selections, ops>>

\* pathSelector.onMouseMove(mouseMove): an armed drag is triggered once the
\* pointer is farther from the pointer-down than the drag-trigger threshold;
\* a drag follows the pointer, projects it onto the path and redraws
PathSelectorMove(name, event, p) ==
  LET triggers ==
        /\ pathSelector.state = "PointerDown"
        /\ Exceeds(DistanceSq(pathSelector.mouseDown[1], p), dragTriggerTouchSlop(State))
      dragging == pathSelector.state = "Dragging" \/ triggers
      projection == transformedMousePoint(vectorLayer, activePathId, p)
      rec == [controller |-> "pathSelector", point |-> p]
  IN  IF ~dragging
      THEN MouseNothing(name, event, rec @@ [raised |-> FALSE], FALSE)
      ELSE IF projection.raised
      THEN /\ pathSelector' = [NewPathSelector EXCEPT
                                 !.state = "Dragging",
                                 !.hit = pathSelector.hit,
                                 !.lastKnownMouseLocation = <<p>>]
           /\ last' = Handled(name, event, rec @@ [raised |-> TRUE])
           /\ error' = TRUE
           /\ UNCHANGED <<segmentSplitter, shapeSplitter, selections, ops>>
      ELSE \E snaps \in BOOLEAN :
             /\ pathSelector' = [NewPathSelector EXCEPT
                                   !.state = "Dragging",
                                   !.hit = pathSelector.hit,
                                   !.lastKnownMouseLocation = <<p>>,
                                   !.snaps = snaps]
             /\ Drawn([State EXCEPT !.pathSelector = pathSelector'],
                      Handled(name, event, rec @@ [raised |-> FALSE]))
             /\ UNCHANGED <<segmentSplitter, shapeSplitter, selections>>

\* the selections after a click on a point
ClickSelections(sels, hit, additive, source) ==
  LET sel == [subIdx |-> hit.subIdx, cmdIdx |-> hit.cmdIdx, source |-> source,
              type |-> "Point"]
  IN  IF additive THEN Append(SelectSeq(sels, LAMBDA s : s # sel), sel) ELSE <<sel>>

\* pathSelector.onMouseUp(mouseUp): a drag is committed as a mutation of the
\* path if the projection is within the snap threshold and is cancelled
\* otherwise; an armed drag that was not triggered is a click that selects
PathSelectorUp(name, event, p) ==
  LET rec == [controller |-> "pathSelector", point |-> p, raised |-> FALSE]
      idle == NewPathSelector
  IN  IF pathSelector.state = "Dragging"
      THEN /\ pathSelector' = idle
           /\ Drawn([State EXCEPT !.pathSelector = idle],
                    Handled(name, event,
                            rec @@ [mutation |-> pathSelector.snaps, click |-> FALSE]))
           /\ UNCHANGED <<segmentSplitter, shapeSplitter, selections>>
      ELSE IF pathSelector.state = "PointerDown"
      THEN /\ pathSelector' = idle
           /\ selections' = ClickSelections(selections, pathSelector.hit[1],
                                            pathSelector.additive, canvasType)
           /\ OverlaysDrawn([State EXCEPT !.pathSelector = idle,
                                          !.selections = selections'],
                            Handled(name, event,
                                    rec @@ [mutation |-> FALSE, click |-> TRUE]))
           /\ UNCHANGED <<segmentSplitter, shapeSplitter>>
      ELSE MouseNothing(name, event, rec @@ [mutation |-> FALSE, click |-> FALSE], FALSE)

\* pathSelector.onMouseLeave(mouseLeave): the gesture is abandoned
PathSelectorLeave(name, event, p) ==
  LET rec == [controller |-> "pathSelector", point |-> p, raised |-> FALSE]
      idle == NewPathSelector
  IN  /\ pathSelector' = idle
      /\ Drawn([State EXCEPT !.pathSelector = idle], Handled(name, event, rec))
      /\ UNCHANGED <<segmentSplitter, shapeSplitter, selections>>

(* SegmentSplitter *)

\* segmentSplitter.onMouseDown(mouseDown): a click within the snap threshold of
\* the path asks for the split of the command it projects on
SegmentSplitterDown(name, event, p) ==
  LET projection == transformedMousePoint(vectorLayer, activePathId, p)
      rec == [controller |-> "segmentSplitter", point |-> p]
  IN  IF projection.raised
      THEN MouseNothing(name, event, rec @@ [raised |-> TRUE], TRUE)
      ELSE \E snaps \in BOOLEAN :
             MouseNothing(name, event,
                          rec @@ [raised |-> FALSE, mutation |-> snaps], FALSE)

\* segmentSplitter.onMouseMove(mouseMove): the pointer is tracked and projected
\* onto the path, and the canvas redrawn
SegmentSplitterMove(name, event, p) ==
  LET projection == transformedMousePoint(vectorLayer, activePathId, p)
      rec == [controller |-> "segmentSplitter", point |-> p]
  IN  IF projection.raised
      THEN MouseNothing(name, event, rec @@ [raised |-> TRUE], TRUE)
      ELSE /\ segmentSplitter' =
                [segmentSplitter EXCEPT !.lastKnownMouseLocation = <<p>>]
           /\ Drawn([State EXCEPT !.segmentSplitter = segmentSplitter'],
                    Handled(name, event, rec @@ [raised |-> FALSE]))
           /\ UNCHANGED <<pathSelector, shapeSplitter, selections>>

\* segmentSplitter.onMouseUp(mouseUp)
SegmentSplitterUp(name, event, p) ==
  MouseNothing(name, event,
               [controller |-> "segmentSplitter", point |-> p, raised |-> FALSE],
               FALSE)

\* segmentSplitter.onMouseLeave(mouseLeave): the pointer is forgotten
SegmentSplitterLeave(name, event, p) ==
  /\ segmentSplitter' = [segmentSplitter EXCEPT !.lastKnownMouseLocation = <<>>]
  /\ Drawn([State EXCEPT !.segmentSplitter = segmentSplitter'],
           Handled(name, event,
                   [controller |-> "segmentSplitter", point |-> p, raised |-> FALSE]))
  /\ UNCHANGED <<pathSelector, shapeSplitter, selections>>

(* ShapeSplitter *)

\* shapeSplitter.onMouseDown(mouseDown): the first click records the initial
\* projection onto the path, the second one the final projection
ShapeSplitterDown(name, event, p) ==
  LET projection == transformedMousePoint(vectorLayer, activePathId, p)
      rec == [controller |-> "shapeSplitter", point |-> p]
  IN  IF projection.raised
      THEN MouseNothing(name, event, rec @@ [raised |-> TRUE], TRUE)
      ELSE \E onPath \in ClickPoints :
             /\ shapeSplitter' =
                  IF shapeSplitter.initialProjection = <<>>
                  THEN [shapeSplitter EXCEPT !.initialProjection = <<onPath>>,
                                             !.lastKnownMouseLocation = <<p>>]
                  ELSE [shapeSplitter EXCEPT !.finalProjection = <<onPath>>,
                                             !.lastKnownMouseLocation = <<p>>]
             /\ Drawn([State EXCEPT !.shapeSplitter = shapeSplitter'],
                      Handled(name, event, rec @@ [raised |-> FALSE]))
             /\ UNCHANGED <<pathSelector, segmentSplitter, selections>>

\* shapeSplitter.onMouseMove(mouseMove): the pointer is tracked for the preview
\* line
ShapeSplitterMove(name, event, p) ==
  /\ shapeSplitter' = [shapeSplitter EXCEPT !.lastKnownMouseLocation = <<p>>]
  /\ Drawn([State EXCEPT !.shapeSplitter = shapeSplitter'],
           Handled(name, event,
                   [controller |-> "shapeSplitter", point |-> p, raised |-> FALSE]))
  /\ UNCHANGED <<pathSelector, segmentSplitter, selections>>

\* shapeSplitter.onMouseUp(mouseUp): with both projections the division of the
\* shape is asked for and the gesture starts anew
ShapeSplitterUp(name, event, p) ==
  LET rec == [controller |-> "shapeSplitter", point |-> p, raised |-> FALSE]
  IN  IF shapeSplitter.finalProjection # <<>>
      THEN /\ shapeSplitter' = NewShapeSplitter
           /\ Drawn([State EXCEPT !.shapeSplitter = NewShapeSplitter],
                    Handled(name, event, rec @@ [mutation |-> TRUE]))
           /\ UNCHANGED <<pathSelector, segmentSplitter, selections>>
      ELSE MouseNothing(name, event, rec @@ [mutation |-> FALSE], FALSE)

\* shapeSplitter.onMouseLeave(mouseLeave): the gesture is cancelled
ShapeSplitterLeave(name, event, p) ==
  /\ shapeSplitter' = NewShapeSplitter
  /\ Drawn([State EXCEPT !.shapeSplitter = NewShapeSplitter],
           Handled(name, event,
                   [controller |-> "shapeSplitter", point |-> p, raised |-> FALSE]))
  /\ UNCHANGED <<pathSelector, segmentSplitter, selections>>

(* The mouse handlers of the component *)

\* the handler of the controller for the event
ControllerEvent(name, controller, event, p) ==
  IF controller = "pathSelector"
  THEN IF name = "onMouseDown" THEN PathSelectorDown(name, event, p)
       ELSE IF name = "onMouseMove" THEN PathSelectorMove(name, event, p)
       ELSE IF name = "onMouseUp" THEN PathSelectorUp(name, event, p)
       ELSE PathSelectorLeave(name, event, p)
  ELSE IF controller = "segmentSplitter"
  THEN IF name = "onMouseDown" THEN SegmentSplitterDown(name, event, p)
       ELSE IF name = "onMouseMove" THEN SegmentSplitterMove(name, event, p)
       ELSE IF name = "onMouseUp" THEN SegmentSplitterUp(name, event, p)
       ELSE SegmentSplitterLeave(name, event, p)
  ELSE IF name = "onMouseDown" THEN ShapeSplitterDown(name, event, p)
       ELSE IF name = "onMouseMove" THEN ShapeSplitterMove(name, event, p)
       ELSE IF name = "onMouseUp" THEN ShapeSplitterUp(name, event, p)
       ELSE ShapeSplitterLeave(name, event, p)

\* onMouseDown, onMouseMove, onMouseUp and onMouseLeave: the point of the event
\* goes to the controller of the mode; the call of a controller that does not
\* exist raises a TypeError
MouseHandler(name, event) ==
  /\ isViewInit
  /\ ~appModePending
  /\ IF ~shouldProcessMouseEvents(State)
     THEN MouseNothing(name, event, [raised |-> FALSE], FALSE)
     ELSE LET p == mouseEventToPoint(State, event)
              target == mouseEventTarget(State)
          IN  IF target.raised
              THEN MouseNothing(name, event,
                     [controller |-> "none", point |-> p, raised |-> TRUE], TRUE)
              ELSE IF ~State[target.value].defined
              THEN MouseNothing(name, event,
                     [controller |-> target.value, point |-> p, raised |-> TRUE,
                      missing |-> TRUE], TRUE)
              ELSE ControllerEvent(name, target.value, event, p)
  /\ UnchangedByMouse

MouseHandlerNames == {"onMouseDown", "onMouseMove", "onMouseUp", "onMouseLeave"}

onMouseDown(event) == MouseHandler("onMouseDown", event)

onMouseMove(event) == MouseHandler("onMouseMove", event)

onMouseUp(event) == MouseHandler("onMouseUp", event)

onMouseLeave(event) == MouseHandler("onMouseLeave", event)

----------------------------------------------------------------------------
(* The canvas and the services around it *)

Paints ==
  { [DefaultPaint EXCEPT !.isStroked = sk, !.isFilled = fl] :
      sk \in BOOLEAN, fl \in BOOLEAN }

OnePath == { UiPath }

\* no layer tree, a tree of the VectorLayer alone, and trees with one PathLayer,
\* in the VectorLayer or in a GroupLayer of it
UiLayers ==
  { Undefined, Layer(<<VectorNode(Unit)>>) }
  \cup { Layer(<<VectorNode(Unit), PathNode(1, pt, pd)>>) :
           pt \in Paints, pd \in OnePath }
  \cup { Layer(<<VectorNode(Unit), GroupNode(1, g), PathNode(2, pt, pd)>>) :
           g \in GroupParams, pt \in {DefaultPaint}, pd \in OnePath }

UiIds == 0..3

Init ==
  /\ canvasType \in CanvasTypes
  /\ isViewInit = FALSE
  /\ appMode = "SelectPoints"
  /\ appModePending = FALSE
  /\ pathSelector = NoController
  /\ segmentSplitter = NoController
  /\ shapeSplitter = NoController
  /\ selections = <<>>
  /\ hover = NoHover
  /\ vectorLayer = Undefined
  /\ activePathId = NoId
  /\ morphable = TRUE
  /\ labelPoints = TRUE
  /\ disabledSubPathIndices = {}
  /\ cssScale = NoScale
  /\ currentHoverPreviewPath = NoPreview
  /\ ops = <<>>
  /\ error = FALSE
  /\ last = [op |-> "constructor"]

Next ==
  \/ ngAfterViewInit
  \/ \E vl \in UiLayers : SetVectorLayer(vl)
  \/ \E id \in UiIds : SetActivePathId(id)
  \/ \E sels \in SelectionLists : SetSelections(sels)
  \/ \E h \in Hovers \cup {NoHover} : SetHover(h)
  \/ \E mode \in AppModes : SetAppMode(mode)
  \/ AppModeNotification
  \/ \E p \in ClickPoints : onDoubleClick(p)

Spec == Init /\ [][Next]_vars

----------------------------------------------------------------------------
(* The transform resolver and the coordinate mappings, applied to every      *)
(* layer tree of at most MaxNodes layers                                     *)

TransformLayers ==
  { Layer(t) : t \in TreesUpTo(MaxNodes, {Unit}, GroupParams, {DefaultPaint},
                               {UiPath}, {}) }

LayerIds == 0..(MaxNodes + 1)

\* the canvas after ngAfterViewInit and the first app-mode notification, with
\* some layer tree and some active path id
InitTransforms ==
  /\ canvasType = "Start"
  /\ isViewInit = TRUE
  /\ appMode = "SelectPoints"
  /\ appModePending = FALSE
  /\ pathSelector = NewPathSelector
  /\ segmentSplitter = NoController
  /\ shapeSplitter = NoController
  /\ selections = <<>>
  /\ hover = NoHover
  /\ vectorLayer \in TransformLayers
  /\ activePathId \in { id \in LayerIds : ActiveIdOk(vectorLayer, id) }
  /\ morphable = TRUE
  /\ labelPoints = TRUE
  /\ disabledSubPathIndices = {}
  /\ cssScale = FirstScale
  /\ currentHoverPreviewPath = NoPreview
  /\ ops = draw(State).ops
  /\ error = draw(State).raised
  /\ last = [op |-> "draw"]

UnchangedCanvas ==
  UNCHANGED <<canvasType, isViewInit, appMode, appModePending, pathSelector,
              segmentSplitter, shapeSplitter, selections, hover, vectorLayer,
              activePathId, morphable, labelPoints, disabledSubPathIndices, cssScale,
                 currentHoverPreviewPath>>

\* Each behaviour applies one method to the canvas InitTransforms gives, or
\* maps a path point to drawing coordinates and back.

\* getTransformsForLayer(this.vectorLayer, layerId)
CallGetTransformsForLayer(layerId) ==
  /\ last.op = "draw"
  /\ last' = [op |-> "getTransformsForLayer", layerId |-> layerId,
              transforms |-> getTransformsForLayer(vectorLayer, layerId)]
  /\ error' = FALSE
  /\ UNCHANGED ops
  /\ UnchangedCanvas

\* pathPointToDrawingCoords(point)
CallPathPointToDrawingCoords(point) ==
  LET result == pathPointToDrawingCoords(vectorLayer, activePathId, point)
  IN  /\ last.op = "draw"
      /\ last' = [op |-> "pathPointToDrawingCoords", point |-> point, result |-> result]
      /\ error' = result.raised
      /\ UNCHANGED ops
      /\ UnchangedCanvas

\* the mouse points of a hit test or a projection: any point, and the drawing
\* coordinates pathPointToDrawingCoords has just returned (origin is then the
\* path point they came from)
MousePoints ==
  { [mousePoint |-> p, origin |-> <<>>] : p \in ClickPoints }
  \cup (IF last.op = "pathPointToDrawingCoords"
        THEN IF last.result.raised THEN {}
             ELSE { [mousePoint |-> last.result.value, origin |-> <<last.point>>] }
        ELSE {})

\* performHitTest(mousePoint)
CallPerformHitTest(mp) ==
  LET result == performHitTest(State, mp.mousePoint,
                  [noPoints |-> FALSE, noSegments |-> FALSE, noShapes |-> FALSE])
  IN  /\ last.op \in {"draw", "pathPointToDrawingCoords"}
      /\ last' = [op |-> "performHitTest", mousePoint |-> mp.mousePoint,
                  origin |-> mp.origin, result |-> result]
      /\ error' = result.raised
      /\ UNCHANGED ops
      /\ UnchangedCanvas

\* calculateProjectionOntoPath(mousePoint): the point handed to pathData.project
CallCalculateProjectionOntoPath(mp) ==
  LET result == transformedMousePoint(vectorLayer, activePathId, mp.mousePoint)
  IN  /\ last.op \in {"draw", "pathPointToDrawingCoords"}
      /\ last' = [op |-> "calculateProjectionOntoPath", mousePoint |-> mp.mousePoint,
                  origin |-> mp.origin,
                  result |-> IF result.raised THEN Raise
                             ELSE Return([point |-> result.value])]
      /\ error' = result.raised
      /\ UNCHANGED ops
      /\ UnchangedCanvas

\* drawOverlays()
CallDrawOverlays ==
  /\ last.op = "draw"
  /\ OverlaysDrawn(State, [op |-> "drawOverlays"])
  /\ UnchangedCanvas

NextTransforms ==
  \/ \E id \in LayerIds : CallGetTransformsForLayer(id)
  \/ \E p \in Points : CallPathPointToDrawingCoords(p)
  \/ \E mp \in MousePoints : CallPerformHitTest(mp)
  \/ \E mp \in MousePoints : CallCalculateProjectionOntoPath(mp)
  \/ CallDrawOverlays

SpecTransforms == InitTransforms /\ [][NextTransforms]_vars

----------------------------------------------------------------------------
(* The mouse handlers on a canvas that has been initialised and notified of   *)
(* the first app mode, in a container of some size, while the services       *)
(* change the mode, the layer tree and the active path                        *)

\* widths of the container: cssScale is 1 and 2
CssScales == { DEFAULT_VIEWPORT_SIZE, 2 * DEFAULT_VIEWPORT_SIZE }

\* a path layer that is stroked only, filled only, or neither, and a path
\* layer in a group that is rotated, scaled and translated
MouseLayers ==
  { Layer(<<VectorNode(Unit), PathNode(1, pt, UiPath)>>) :
      pt \in { pn \in Paints : ~(pn.isStroked /\ pn.isFilled) } }
  \cup { Layer(<<VectorNode(Unit), GroupNode(1, g), PathNode(2, DefaultPaint, UiPath)>>) :
           g \in { gp \in GroupParams : gp.rotation = 90 } }

\* no active path, or the PathLayer of the tree
MouseIds(vl) == { NoId } \cup { id \in 2..3 : HasLayer(vl, id) /\ ActiveIdOk(vl, id) }

InitMouse ==
  /\ canvasType = "Start"
  /\ isViewInit = TRUE
  /\ appMode = "SelectPoints"
  /\ appModePending = FALSE
  /\ pathSelector = NewPathSelector
  /\ segmentSplitter = NoController
  /\ shapeSplitter = NoController
  /\ selections = <<>>
  /\ hover = NoHover
  /\ vectorLayer \in MouseLayers
  /\ activePathId \in MouseIds(vectorLayer)
  /\ morphable = TRUE
  /\ labelPoints = TRUE
  /\ disabledSubPathIndices = {}
  /\ cssScale \in CssScales
  /\ currentHoverPreviewPath = NoPreview
  /\ ops = draw(State).ops
  /\ error = draw(State).raised
  /\ last = [op |-> "draw"]

NextMouse ==
  \/ \E event \in MouseEvents : onMouseDown(event)
  \/ \E event \in MouseEvents : onMouseMove(event)
  \/ \E event \in MouseEvents : onMouseUp(event)
  \/ \E event \in MouseEvents : onMouseLeave(event)
  \/ \E mode \in AppModes : SetAppMode(mode)
  \/ AppModeNotification
  \/ \E vl \in MouseLayers : SetVectorLayer(vl)
  \/ \E id \in MouseIds(vectorLayer) : SetActivePathId(id)

SpecMouse == InitMouse /\ [][NextMouse]_vars

----------------------------------------------------------------------------
(* The hover previews of a canvas whose active path has closed subpaths, and  *)
(* the mutations of that path that the state service takes over               *)

\* commands of a closed subpath
MaxCommands == 4

\* the k-th vertex of the closed subpaths: (k, k * k), all different
Vertex(k) == Pt(k, k * k)

\* a closed subpath of n commands: a MoveTo, LineTos and a ClosePath
Polygon(n) ==
  [i \in 1..n |-> IF i = 1 THEN Command("M", Vertex(0), FALSE)
                  ELSE IF i = n THEN Command("Z", Vertex(0), FALSE)
                  ELSE Command("L", Vertex(i - 1), FALSE)]

\* a subpath of zero length
Collapsed == << Command("M", Pt(0, 0), FALSE), Command("L", Pt(0, 0), FALSE) >>

BasePaths ==
  { [subPaths |-> sp, length |-> 100] :
      sp \in { <<Polygon(n)>> : n \in 3..MaxCommands }
              \cup { <<Collapsed, Polygon(n)>> : n \in 3..MaxCommands }
              \cup { <<Segment(1), Polygon(3)>> } }

\* the paths and the paths with one command split
EditPaths ==
  BasePaths
  \cup { splitCommandInHalf(path, subIdx, cmdIdx) :
           path \in BasePaths, subIdx \in 0..1, cmdIdx \in 1..2 }

HoverTypes == {"Split", "Unsplit", "Reverse", "ShiftForward", "ShiftBack", "Point"}

\* hovers of both canvases: those of a command name it by subIdx and cmdIdx,
\* those of a subpath by subIdx
PathHovers ==
  [defined : {TRUE}, type : {"Split", "Unsplit", "Point"}, source : {"Start", "End"},
   subIdx : 0..1, cmdIdx : 0..2]
  \cup [defined : {TRUE}, type : {"Reverse", "ShiftForward", "ShiftBack"},
        source : {"Start", "End"}, subIdx : 0..1, cmdIdx : {0}]

InitPath ==
  /\ canvasType = "Start"
  /\ isViewInit = TRUE
  /\ appMode = "SelectPoints"
  /\ appModePending = FALSE
  /\ pathSelector = NewPathSelector
  /\ segmentSplitter = NoController
  /\ shapeSplitter = NoController
  /\ selections = <<>>
  /\ hover = NoHover
  /\ vectorLayer \in { Layer(<<VectorNode(Unit), PathNode(1, DefaultPaint, path)>>) :
                         path \in EditPaths }
  /\ activePathId = 2
  /\ morphable = TRUE
  /\ labelPoints = TRUE
  /\ disabledSubPathIndices = {}
  /\ cssScale = DEFAULT_VIEWPORT_SIZE
  /\ currentHoverPreviewPath = NoPreview
  /\ ops = draw(State).ops
  /\ error = draw(State).raised
  /\ last = [op |-> "draw"]

\* the mutation goes on a run of the same mutation, or undoes the split before
ContinuesMutation(type, subIdx, cmdIdx) ==
  /\ last.op = "mutation"
  /\ last.subIdx = subIdx
  /\ \/ /\ type = last.type
        /\ type \in {"ShiftForward", "ShiftBack", "Reverse"}
        /\ last.times < MaxCommands
     \/ /\ type = "Unsplit"
        /\ last.type = "Split"
        /\ last.cmdIdx = cmdIdx

\* another part of the application replaces the active path by the path that
\* a mutation of it builds; the subscription of getVectorLayerObservable
\* redraws
UpdateActivePath(h) ==
  LET path == activePathLayer(State).pathData
      built == HoverPreview(path, h)[1]
      vl == [vectorLayer EXCEPT !.nodes[activePathId].pathData = built]
      continues == ContinuesMutation(h.type, h.subIdx, h.cmdIdx)
  IN  /\ ~appModePending
      /\ h.type # "Point"
      /\ h.source = canvasType
      /\ last.op = "draw" \/ continues
      /\ vectorLayer' = vl
      /\ Drawn([State EXCEPT !.vectorLayer = vl],
               [op |-> "mutation", type |-> h.type, subIdx |-> h.subIdx,
                cmdIdx |-> h.cmdIdx,
                times |-> IF continues /\ h.type = last.type THEN last.times + 1 ELSE 1,
                previous |-> IF continues THEN last.type ELSE "none",
                original |-> IF continues THEN last.original ELSE path])
      /\ UNCHANGED <<canvasType, isViewInit, appMode, appModePending, pathSelector,
                     segmentSplitter, shapeSplitter, selections, hover,
                     activePathId, morphable, labelPoints, disabledSubPathIndices,
                     cssScale, currentHoverPreviewPath>>

\* drawLabeledPoints(ctx)
CallDrawLabeledPoints ==
  LET result == drawLabeledPoints(State)
  IN  /\ last.op \in {"draw", "drawOverlays", "mutation"}
      /\ last' = [op |-> "drawLabeledPoints", result |-> result]
      /\ error' = result.raised
      /\ UNCHANGED ops
      /\ UnchangedCanvas

NextPath ==
  \/ \E h \in PathHovers \cup {NoHover} : SetHover(h)
  \/ \E h \in PathHovers : UpdateActivePath(h)
  \/ CallDrawLabeledPoints

SpecPath == InitPath /\ [][NextPath]_vars

----------------------------------------------------------------------------
(* The handlers of a Preview canvas, next to those of a Start canvas         *)

PreviewLayer == Layer(<<VectorNode(Unit), PathNode(1, DefaultPaint, UiPath)>>)

\* the canvas after ngAfterViewInit: a Start canvas has had its first app-mode
\* notification, a Preview canvas has no subscription to the app mode
InitPreview ==
  /\ canvasType \in {"Start", "Preview"}
  /\ isViewInit = TRUE
  /\ appMode = "SelectPoints"
  /\ appModePending = FALSE
  /\ pathSelector = (IF canvasType = "Preview" THEN NoController ELSE NewPathSelector)
  /\ segmentSplitter = NoController
  /\ shapeSplitter = NoController
  /\ selections = <<>>
  /\ hover = NoHover
  /\ vectorLayer = PreviewLayer
  /\ activePathId \in {NoId, 2}
  /\ morphable = TRUE
  /\ labelPoints = TRUE
  /\ disabledSubPathIndices = {}
  /\ cssScale = DEFAULT_VIEWPORT_SIZE
  /\ currentHoverPreviewPath = NoPreview
  /\ ops = draw(State).ops
  /\ error = draw(State).raised
  /\ last = [op |-> "draw"]

NextPreview ==
  \/ \E mode \in AppModes : SetAppMode(mode)
  \/ AppModeNotification
  \/ \E sels \in SelectionLists : SetSelections(sels)
  \/ \E id \in {NoId, 2} : SetActivePathId(id)
  \/ \E event \in MouseEvents : onMouseDown(event)
  \/ \E event \in MouseEvents : onMouseMove(event)
  \/ \E event \in MouseEvents : onMouseUp(event)
  \/ \E event \in MouseEvents : onMouseLeave(event)
  \/ \E p \in ClickPoints : onDoubleClick(p)

SpecPreview == InitPreview /\ [][NextPreview]_vars

----------------------------------------------------------------------------
(* resizeAndDraw(): the sizes of the canvas.  A number is a positive rational *)
(* [num, den] in lowest terms; a division or multiplication of the program    *)
(* gives the nearest number with MantissaBits significant bits.               *)

Max(a, b) == IF a > b THEN a ELSE b

RECURSIVE Pow2(_)
Pow2(k) == IF k = 0 THEN 1 ELSE 2 * Pow2(k - 1)

\* the rational n / d in lowest terms
Ratio(n, d) == LET g == Gcd(n, d) IN Frac(n \div g, d \div g)

\* the number of an integer (exact up to 2 ^ MantissaBits)
Num(n) == Frac(n, 1)

\* the e with 2^e <= n / d < 2^(e + 1), counted from e
RECURSIVE FloorLog2(_, _, _)
FloorLog2(n, d, e) ==
  IF n >= 2 * d THEN FloorLog2(n, 2 * d, e + 1)
  ELSE IF n < d THEN FloorLog2(2 * n, d, e - 1)
  ELSE e

\* n / d rounded to the nearest number with MantissaBits significant bits,
\* a tie to the one with an even significand
Round(n, d) ==
  LET e == FloorLog2(n, d, 0) - (MantissaBits - 1)
      N == IF e >= 0 THEN n ELSE n * Pow2(-e)
      D == IF e >= 0 THEN d * Pow2(e) ELSE d
      q == N \div D
      r == N % D
      m == IF 2 * r > D \/ (2 * r = D /\ q % 2 = 1) THEN q + 1 ELSE q
  IN  IF e >= 0 THEN Frac(m * Pow2(e), 1) ELSE Ratio(m, Pow2(-e))

\* a / b and a * b of the program
Divided(a, b) == Round(a.num * b.den, a.den * b.num)

Times(a, b) == Round(a.num * b.num, a.den * b.den)

Greater(a, b) == a.num * b.den > b.num * a.den

\* a resizeAndDraw() that takes the scale of the other dimension
cssScaleOfOtherDimension(vlSize, cssContainerWidth, cssContainerHeight) ==
  LET vectorAspectRatio == Divided(Num(vlSize.width), Num(vlSize.height))
      containerAspectRatio == Divided(Num(cssContainerWidth), Num(cssContainerHeight))
  IN  IF Greater(vectorAspectRatio, containerAspectRatio)
      THEN Divided(Num(cssContainerHeight), Num(vlSize.height))
      ELSE Divided(Num(cssContainerWidth), Num(vlSize.width))

\* this.cssScale of resizeAndDraw()
cssScaleOf(vlSize, cssContainerWidth, cssContainerHeight) ==
  LET vectorAspectRatio == Divided(Num(vlSize.width), Num(vlSize.height))
      containerAspectRatio == Divided(Num(cssContainerWidth), Num(cssContainerHeight))
  IN  IF Greater(vectorAspectRatio, containerAspectRatio)
      THEN Divided(Num(cssContainerWidth), Num(vlSize.width))
      ELSE Divided(Num(cssContainerHeight), Num(vlSize.height))

\* the sizes after resizeAndDraw(): cssScale, and the cssWidth and cssHeight
\* given to the canvases
resizeAndDraw(vlSize, cssContainerWidth, cssContainerHeight) ==
  LET scale == cssScaleOf(vlSize, cssContainerWidth, cssContainerHeight)
  IN  [vlSize |-> vlSize,
       cssContainerWidth |-> cssContainerWidth,
       cssContainerHeight |-> cssContainerHeight,
       cssScale |-> scale,
       cssWidth |-> Times(Num(vlSize.width), scale),
       cssHeight |-> Times(Num(vlSize.height), scale)]

\* width and height of the viewport of a vector layer
ViewportSizes == [width : {1, 3, 7, 10, DEFAULT_VIEWPORT_SIZE},
                  height : {1, 3, 7, 10, DEFAULT_VIEWPORT_SIZE}]

\* sizes the canvasResizeService reports
ReportedSizes == [width : {0, 75, 79, 83, 95, 101}, height : {0, 75, 79, 83, 95, 101}]

\* the canvas after ngAfterViewInit: the viewport has the default size, the
\* container is 1 by 1, and resizeAndDraw() has run.  The sizes are kept in
\* last; cssScale, which the other handlers read, is not followed here.
InitResize ==
  /\ canvasType = "Start"
  /\ isViewInit = TRUE
  /\ appMode = "SelectPoints"
  /\ appModePending = FALSE
  /\ pathSelector = NewPathSelector
  /\ segmentSplitter = NoController
  /\ shapeSplitter = NoController
  /\ selections = <<>>
  /\ hover = NoHover
  /\ vectorLayer = Undefined
  /\ activePathId = NoId
  /\ morphable = TRUE
  /\ labelPoints = TRUE
  /\ disabledSubPathIndices = {}
  /\ cssScale = FirstScale
  /\ currentHoverPreviewPath = NoPreview
  /\ ops = draw(State).ops
  /\ error = draw(State).raised
  /\ last = [op |-> "resizeAndDraw"]
            @@ resizeAndDraw([width |-> DEFAULT_VIEWPORT_SIZE,
                              height |-> DEFAULT_VIEWPORT_SIZE], 1, 1)

\* the subscription of canvasResizeService: the container is the reported size
\* without the margins, at least 1; resizeAndDraw() if it has changed
CanvasResized(size) ==
  LET width == Max(1, size.width - CANVAS_MARGIN * 2)
      height == Max(1, size.height - CANVAS_MARGIN * 2)
  IN  /\ isViewInit
      /\ IF width # last.cssContainerWidth \/ height # last.cssContainerHeight
         THEN Drawn(State, [op |-> "resizeAndDraw"]
                           @@ resizeAndDraw(last.vlSize, width, height))
         ELSE /\ last' = [last EXCEPT !.op = "canvasResized"]
              /\ UNCHANGED <<ops, error>>
      /\ UnchangedCanvas

\* the subscription of getVectorLayerObservable: resizeAndDraw() if the size of
\* the viewport has changed, draw() otherwise
VectorLayerResized(size) ==
  /\ isViewInit
  /\ IF size # last.vlSize
     THEN Drawn(State, [op |-> "resizeAndDraw"]
                       @@ resizeAndDraw(size, last.cssContainerWidth,
                                        last.cssContainerHeight))
     ELSE Drawn(State, [last EXCEPT !.op = "draw"])
  /\ UnchangedCanvas

NextResize ==
  \/ \E size \in ReportedSizes : CanvasResized(size)
  \/ \E size \in ViewportSizes : VectorLayerResized(size)

SpecResize == InitResize /\ [][NextResize]_vars

----------------------------------------------------------------------------
(* drawLabeledPoints(ctx) under selections, hovers and a drag of the path     *)
(* selector                                                                   *)

LabelPaths ==
  { [subPaths |-> sp, length |-> 100] :
      sp \in { <<Polygon(3)>>, <<Segment(1), Polygon(3)>>, <<Collapsed, Polygon(3)>> } }

\* selections of points and of subpaths
LabelSelectionRecords ==
  { [subIdx |-> s, cmdIdx |-> c, source |-> "Start", type |-> "Point"] :
      s \in 0..1, c \in 0..1 }
  \cup { [subIdx |-> s, source |-> "Start", type |-> "SubPath"] : s \in 0..1 }

LabelSelectionLists ==
  { <<>> } \cup { <<a>> : a \in LabelSelectionRecords }
  \cup { <<a, b>> : <<a, b>> \in { ab \in LabelSelectionRecords \X LabelSelectionRecords :
                                      ab[1] # ab[2] } }

LabelHovers ==
  { h \in PathHovers :
      h.source = "Start" /\ h.cmdIdx <= 1 /\ h.type \in {"Point", "Split", "Reverse"} }

\* the path selector at rest, and in a triggered drag of a point
LabelSelectors ==
  { NewPathSelector }
  \cup { [NewPathSelector EXCEPT !.state = "Dragging",
                                 !.hit = << [subIdx |-> s, cmdIdx |-> c] >>] :
           s \in 0..1, c \in 1..2 }

InitLabels ==
  /\ canvasType = "Start"
  /\ isViewInit = TRUE
  /\ appMode = "SelectPoints"
  /\ appModePending = FALSE
  /\ pathSelector \in LabelSelectors
  /\ segmentSplitter = NoController
  /\ shapeSplitter = NoController
  /\ selections = <<>>
  /\ hover = NoHover
  /\ vectorLayer \in { Layer(<<VectorNode(Unit), PathNode(1, DefaultPaint, path)>>) :
                         path \in LabelPaths }
  /\ activePathId = 2
  /\ morphable = TRUE
  /\ labelPoints = TRUE
  /\ disabledSubPathIndices = {}
  /\ cssScale = DEFAULT_VIEWPORT_SIZE
  /\ currentHoverPreviewPath = NoPreview
  /\ ops = draw(State).ops
  /\ error = draw(State).raised
  /\ last = [op |-> "draw"]

NextLabels ==
  \/ \E sels \in LabelSelectionLists : SetSelections(sels)
  \/ \E h \in LabelHovers \cup {NoHover} : SetHover(h)
  \/ CallDrawLabeledPoints

SpecLabels == InitLabels /\ [][NextLabels]_vars

----------------------------------------------------------------------------
(* The shape splitter's overlays: drawHighlightedSplitShapeSegment and       *)
(* drawSplitShapePreview, on a canvas in SplitSubPaths mode whose active     *)
(* layer is filled.  Points are where they appear on the overlay surface,    *)
(* in viewport coordinates.                                                  *)

\* the line from startPoint to endPoint that drawHighlightedSplitShapeSegment
\* strokes after the first click: moveTo and lineTo run on a context to which
\* every matrix of transformsForActiveLayer has been applied
drawHighlightedSplitShapeSegment(st) ==
  IF st.appMode # "SplitSubPaths" \/ ~st.shapeSplitter.defined
  THEN Return([line |-> FALSE])
  ELSE IF st.shapeSplitter.initialProjection = <<>>
  THEN Return([line |-> FALSE])
  ELSE
    LET proj1 == st.shapeSplitter.initialProjection[1]
        proj2 == st.shapeSplitter.finalProjection
        startPoint == pathPointToDrawingCoords(st.vectorLayer, st.activePathId, proj1)
        endPoint ==
          IF proj2 # <<>>
          THEN pathPointToDrawingCoords(st.vectorLayer, st.activePathId, proj2[1])
          ELSE Return(st.shapeSplitter.lastKnownMouseLocation[1])
        transforms == getTransformsForLayer(st.vectorLayer, st.activePathId)
    IN  IF startPoint.raised \/ endPoint.raised THEN Raise
        ELSE Return([line |-> TRUE,
                     start |-> executeCommandsPoint(startPoint.value, transforms.value),
                     end |-> executeCommandsPoint(endPoint.value, transforms.value)])

\* the marker drawSplitShapePreview draws at the initial projection after the
\* first click, on the context in viewport coordinates
drawSplitShapePreview(st) ==
  IF st.appMode # "SplitSubPaths" \/ ~st.shapeSplitter.defined
  THEN Return([marker |-> FALSE])
  ELSE IF st.shapeSplitter.initialProjection = <<>>
  THEN Return([marker |-> FALSE])
  ELSE
    LET proj1 == st.shapeSplitter.initialProjection[1]
        startPoint == pathPointToDrawingCoords(st.vectorLayer, st.activePathId, proj1)
    IN  IF startPoint.raised THEN Raise
        ELSE Return([marker |-> TRUE, entry |-> startPoint.value])

FilledPaint == [DefaultPaint EXCEPT !.isStroked = FALSE, !.isFilled = TRUE]

\* a filled path layer in the VectorLayer, and in a group that is rotated,
\* scaled and translated
SplitShapeLayers ==
  { Layer(<<VectorNode(Unit), PathNode(1, FilledPaint, UiPath)>>) }
  \cup { Layer(<<VectorNode(Unit), GroupNode(1, g), PathNode(2, FilledPaint, UiPath)>>) :
           g \in GroupParams }

\* the canvas after the notification of the SplitSubPaths mode
InitSplitShape ==
  /\ canvasType = "Start"
  /\ isViewInit = TRUE
  /\ appMode = "SplitSubPaths"
  /\ appModePending = FALSE
  /\ pathSelector = NoController
  /\ segmentSplitter = NoController
  /\ shapeSplitter = NewShapeSplitter
  /\ selections = <<>>
  /\ hover = NoHover
  /\ vectorLayer \in SplitShapeLayers
  /\ activePathId = Len(vectorLayer.nodes)
  /\ morphable = TRUE
  /\ labelPoints = TRUE
  /\ disabledSubPathIndices = {}
  /\ cssScale = DEFAULT_VIEWPORT_SIZE
  /\ currentHoverPreviewPath = NoPreview
  /\ ops = draw(State).ops
  /\ error = draw(State).raised
  /\ last = [op |-> "draw"]

\* drawHighlightedSplitShapeSegment(ctx)
CallDrawHighlightedSplitShapeSegment ==
  LET result == drawHighlightedSplitShapeSegment(State)
  IN  /\ last.op \in MouseHandlerNames
      /\ last' = [op |-> "drawHighlightedSplitShapeSegment", result |-> result]
      /\ error' = result.raised
      /\ UNCHANGED ops
      /\ UnchangedCanvas

\* drawSplitShapePreview(ctx)
CallDrawSplitShapePreview ==
  LET result == drawSplitShapePreview(State)
  IN  /\ last.op \in MouseHandlerNames
      /\ last' = [op |-> "drawSplitShapePreview", result |-> result]
      /\ error' = result.raised
      /\ UNCHANGED ops
      /\ UnchangedCanvas

NextSplitShape ==
  \/ \E event \in MouseEvents : onMouseDown(event)
  \/ \E event \in MouseEvents : onMouseMove(event)
  \/ \E event \in MouseEvents : onMouseUp(event)
  \/ \E event \in MouseEvents : onMouseLeave(event)
  \/ CallDrawHighlightedSplitShapeSegment
  \/ CallDrawSplitShapePreview

SpecSplitShape == InitSplitShape /\ [][NextSplitShape]_vars

----------------------------------------------------------------------------
(* draw() on layer trees whose PathLayer is trimmed or not, under a          *)
(* VectorLayer that is translucent or not, on each kind of canvas            *)

\* trimPathStart, trimPathEnd and trimPathOffset, in 1/Unit
TrimPaths ==
  { <<0, Unit, 0>>, <<250, 750, 0>>, <<750, 250, 0>>, <<0, Unit, 100>>,
    <<500, 500, 0>> }

DrawPaints ==
  { [DefaultPaint EXCEPT !.trimPathStart = t[1], !.trimPathEnd = t[2],
                         !.trimPathOffset = t[3]] : t \in TrimPaths }
  \cup { [DefaultPaint EXCEPT !.isFilled = TRUE] }

\* vectorLayer.alpha, in 1/Unit
Alphas == { 500, Unit }

DrawLayers ==
  { Layer(<<VectorNode(al)>>) : al \in Alphas }
  \cup { Layer(<<VectorNode(al), PathNode(1, pt, pd)>>) :
           al \in Alphas, pt \in DrawPaints, pd \in PathDatas }
  \cup { Layer(<<VectorNode(al), GroupNode(1, g), PathNode(2, pt, pd)>>) :
           al \in Alphas, g \in { CHOOSE g \in GroupParams : g.rotation = 90 },
           pt \in DrawPaints, pd \in PathDatas }
  \cup { Layer(<<VectorNode(al), ClipPathNode(1, pd), PathNode(1, DefaultPaint, pd)>>) :
           al \in Alphas, pd \in PathDatas }

DrawIds == 0..3

\* this.cssScale: that of the first resizeAndDraw(), and one above 4, for which
\* drawOverlays() draws the pixel grid
DrawCssScales == { FirstScale, 5 * DEFAULT_VIEWPORT_SIZE }

\* the canvas after ngAfterViewInit.  disabledSubPathIndices is a field that
\* draw() reads and that the component sets to [] and never assigns again: it
\* is given every value here so that both branches of draw() are taken.
InitDraw ==
  /\ canvasType \in CanvasTypes
  /\ isViewInit = TRUE
  /\ appMode = "SelectPoints"
  /\ appModePending = FALSE
  /\ pathSelector = (IF canvasType = "Preview" THEN NoController ELSE NewPathSelector)
  /\ segmentSplitter = NoController
  /\ shapeSplitter = NoController
  /\ selections = <<>>
  /\ hover = NoHover
  /\ vectorLayer \in DrawLayers
  /\ activePathId \in { id \in DrawIds : ActiveIdOk(vectorLayer, id) }
  /\ morphable \in BOOLEAN
  /\ labelPoints = TRUE
  /\ disabledSubPathIndices \in SUBSET (0..(MaxSubPaths - 1))
  /\ cssScale \in DrawCssScales
  /\ currentHoverPreviewPath = NoPreview
  /\ ops = draw(State).ops
  /\ error = draw(State).raised
  /\ last = [op |-> "ngAfterViewInit"]

\* the morphability status changes; the subscription of a Preview canvas to
\* getMorphabilityStatusObservable redraws
SetMorphabilityStatus(b) ==
  /\ morphable' = b
  /\ IF canvasType = "Preview"
     THEN Drawn([State EXCEPT !.morphable = b], [op |-> "draw"])
     ELSE /\ last' = [op |-> "setMorphabilityStatus"]
          /\ UNCHANGED <<ops, error>>
  /\ UNCHANGED <<canvasType, isViewInit, appMode, appModePending, pathSelector,
                 segmentSplitter, shapeSplitter, selections, hover, vectorLayer,
                 activePathId, labelPoints, disabledSubPathIndices, cssScale,
                 currentHoverPreviewPath>>

\* the layer trees that differ from vl in the alpha of the VectorLayer at most
AlphaChanges(vl) ==
  { [vl EXCEPT !.nodes[1].alpha = al] : al \in Alphas }

NextDraw ==
  \/ \E vl \in AlphaChanges(vectorLayer) : SetVectorLayer(vl)
  \/ \E id \in DrawIds : SetActivePathId(id)
  \/ \E b \in BOOLEAN : SetMorphabilityStatus(b)

SpecDraw == InitDraw /\ [][NextDraw]_vars

----------------------------------------------------------------------------
(* performHitTest with every combination of options, on PathLayers that are  *)
(* stroked or not and filled or not                                          *)

\* HitTestOpts: noPoints, noSegments, noShapes
HitTestOptions ==
  [noPoints : BOOLEAN, noSegments : BOOLEAN, noShapes : BOOLEAN]

InitHitTest ==
  /\ canvasType \in CanvasTypes \ {"Preview"}
  /\ isViewInit = TRUE
  /\ appMode = "SelectPoints"
  /\ appModePending = FALSE
  /\ pathSelector = NewPathSelector
  /\ segmentSplitter = NoController
  /\ shapeSplitter = NoController
  /\ selections = <<>>
  /\ hover = NoHover
  /\ vectorLayer \in UiLayers \ {Undefined}
  /\ activePathId \in { id \in UiIds : ActiveIdOk(vectorLayer, id) }
  /\ morphable = TRUE
  /\ labelPoints = TRUE
  /\ disabledSubPathIndices = {}
  /\ cssScale = FirstScale
  /\ currentHoverPreviewPath = NoPreview
  /\ ops = draw(State).ops
  /\ error = draw(State).raised
  /\ last = [op |-> "draw"]

\* performHitTest(mousePoint, opts), as a controller calls it
CallPerformHitTestWith(mousePoint, opts) ==
  LET result == performHitTest(State, mousePoint, opts)
  IN  /\ last.op = "draw"
      /\ last' = [op |-> "performHitTest", mousePoint |-> mousePoint,
                  opts |-> opts, result |-> result]
      /\ error' = result.raised
      /\ UNCHANGED ops
      /\ UnchangedCanvas

NextHitTest ==
  \E mousePoint \in ClickPoints, opts \in HitTestOptions :
    CallPerformHitTestWith(mousePoint, opts)

SpecHitTest == InitHitTest /\ [][NextHitTest]_vars

----------------------------------------------------------------------------
(* Properties of the transform resolver and the coordinate mappings          *)
(* (SpecTransforms)                                                          *)

\* the ancestors of a layer of the tree, the outermost first
RECURSIVE AncestorsOf(_, _)
AncestorsOf(vl, id) ==
  IF vl.nodes[id].parent = 0 THEN <<>>
  ELSE Append(AncestorsOf(vl, vl.nodes[id].parent), vl.nodes[id].parent)

\* the five matrices the resolver is to give for each GroupLayer of a list of
\* layers and no matrix for any other layer
RECURSIVE FiveMatricesEach(_, _)
FiveMatricesEach(vl, layers) ==
  IF layers = <<>> THEN <<>>
  ELSE LET g == vl.nodes[Head(layers)].group
       IN  (IF vl.nodes[Head(layers)].kind = "group"
            THEN << Mat(1, 0, 0, 1, g.pivotX, g.pivotY),
                    Mat(1, 0, 0, 1, g.translateX, g.translateY),
                    Mat(Cos(g.rotation), Sin(g.rotation),
                        -Sin(g.rotation), Cos(g.rotation), 0, 0),
                    Mat(g.scaleX, 0, 0, g.scaleY, 0, 0),
                    Mat(1, 0, 0, 1, -g.pivotX, -g.pivotY) >>
            ELSE <<>>)
           \o FiveMatricesEach(vl, Tail(layers))

GroupAncestors(vl, id) ==
  { i \in 1..Len(AncestorsOf(vl, id)) : vl.nodes[AncestorsOf(vl, id)[i]].kind = "group" }

\* C3: for a layer id of the tree, getTransformsForLayer returns, from the
\* outermost ancestor to the parent, five matrices for every GroupLayer
\* ancestor -- translate(pivot), translate(translateX, translateY), rotate,
\* scale, translate(-pivot) -- and nothing for the other ancestors or for the
\* layer itself, so 5 times as many matrices as the layer has GroupLayer
\* ancestors.
C3_FiveMatricesPerGroupAncestor ==
  (last.op = "getTransformsForLayer" /\ HasLayer(vectorLayer, last.layerId))
  => /\ last.transforms.defined
     /\ last.transforms.value
          = FiveMatricesEach(vectorLayer, AncestorsOf(vectorLayer, last.layerId))
     /\ Len(last.transforms.value)
          = 5 * Cardinality(GroupAncestors(vectorLayer, last.layerId))

\* the resolver has answered for a layer in a GroupLayer in a GroupLayer whose
\* parameters differ
C3_Witness ==
  /\ last.op = "getTransformsForLayer"
  /\ HasLayer(vectorLayer, last.layerId)
  /\ Len(last.transforms.value) = 10
  /\ last.transforms.value[1] # last.transforms.value[6]

\* C4: getTransformsForLayer returns undefined exactly when no layer of the
\* tree has the id; for a layer without GroupLayer ancestors it returns the
\* empty list, which is not undefined; and a subtree that lacks the id does
\* not end the search before its later siblings are searched.
C4_UndefinedIffAbsent ==
  last.op = "getTransformsForLayer"
  => /\ last.transforms.defined <=> HasLayer(vectorLayer, last.layerId)
     /\ (HasLayer(vectorLayer, last.layerId)
         /\ GroupAncestors(vectorLayer, last.layerId) = {})
        => (last.transforms.value = <<>> /\ last.transforms # NotFound)

\* the resolver has answered for a child of the VectorLayer that comes after
\* a GroupLayer with a child of its own
C4_Witness ==
  /\ last.op = "getTransformsForLayer"
  /\ last.layerId = 4
  /\ HasLayer(vectorLayer, 4)
  /\ vectorLayer.nodes[2].kind = "group"
  /\ vectorLayer.nodes[3].parent = 2
  /\ vectorLayer.nodes[4].parent = 1
  /\ last.transforms = Found(<<>>)

\* the active path id is set and names no layer of the tree
DanglingActivePathId ==
  activePathId # NoId /\ ~HasLayer(vectorLayer, activePathId)

\* C5: when the active path id is set but names no layer of the tree, each of
\* drawOverlays, performHitTest, calculateProjectionOntoPath and
\* pathPointToDrawingCoords completes without raising an error.
C5_DanglingIdNeverRaises ==
  (/\ DanglingActivePathId
   /\ last.op \in {"drawOverlays", "performHitTest", "calculateProjectionOntoPath",
                   "pathPointToDrawingCoords"})
  => ~error

\* C6: a path point mapped to drawing coordinates by pathPointToDrawingCoords
\* and back by the inverse matrix of performHitTest and of
\* calculateProjectionOntoPath is the path point again; and
\* pathPointToDrawingCoords puts the point where executeCommands, handing the
\* same matrices to the drawing context in their order, draws it.
C6_RoundTrip ==
  /\ (/\ last.op \in {"performHitTest", "calculateProjectionOntoPath"}
      /\ last.origin # <<>>)
     => (~last.result.raised /\ SamePoint(last.result.value.point, last.origin[1]))
  /\ (last.op = "pathPointToDrawingCoords" /\ ~last.result.raised)
     => SamePoint(last.result.value,
                  executeCommandsPoint(last.point,
                    getTransformsForLayer(vectorLayer, activePathId).value))

\* a point off the origin has gone to drawing coordinates and back through the
\* ten matrices of two GroupLayers and has moved on the way
C6_Witness ==
  /\ last.op = "performHitTest"
  /\ last.origin = << Pt(1, 1) >>
  /\ Len(getTransformsForLayer(vectorLayer, activePathId).value) = 10
  /\ ~SamePoint(last.mousePoint, Pt(1, 1))

----------------------------------------------------------------------------
(* Properties of the handlers (Spec) *)

\* C1: after the app-mode callback of a non-Preview canvas, at most one of
\* pathSelector, segmentSplitter and shapeSplitter is instantiated, whatever
\* the mode and whether the active path layer is absent, stroked, filled or
\* both.
C1_AtMostOneController ==
  last.op = "appMode"
  => /\ ~(pathSelector.defined /\ segmentSplitter.defined)
     /\ ~(pathSelector.defined /\ shapeSplitter.defined)
     /\ ~(segmentSplitter.defined /\ shapeSplitter.defined)

\* C2 as stated: after the app-mode callback, for any mode, the selections
\* are empty and the hover is cleared.
C2_ModeSwitchResetsAll ==
  last.op = "appMode" => (selections = <<>> /\ hover = NoHover)

\* C2: the app-mode callback clears the hover in every mode; it empties the
\* selections when the mode is SelectPoints or SplitSubPaths and leaves them
\* as they are when the mode is AddPoints.
C2_ModeSwitchResets ==
  [][(appModePending /\ ~appModePending')
     => /\ hover' = NoHover
        /\ selections' = IF appMode = "AddPoints" THEN selections ELSE <<>>]_vars

\* the callback has run for the AddPoints mode and has kept a selection
C2_Witness ==
  /\ last.op = "appMode"
  /\ last.mode = "AddPoints"
  /\ selections # <<>>
  /\ hover = NoHover

\* the subIdx the handler is to select: that of the end point hit if there is
\* one, else of the shape hit, else of the segment hit
MostRelevantSubIdx(hits) ==
  IF hits.endPointHit # <<>> THEN hits.endPointHit[1]
  ELSE IF hits.shapeHit # <<>> THEN hits.shapeHit[1]
  ELSE hits.segmentHit[1]

DoubleClickHit ==
  /\ last.op = "onDoubleClick"
  /\ "hitResult" \in DOMAIN last
  /\ last.hitResult.isHit

\* C10: a double click in SelectPoints mode whose hit test reports isHit
\* selects the last element of segmentHits ++ shapeHits ++ endPointHits (an
\* end point hit before a shape hit before a segment hit): the selections
\* become exactly one SubPath selection of that element's subIdx with this
\* canvas as source, and the AddPoints mode is requested; with isHit there is
\* always such an element.
C10_DoubleClickSelectsLastHit ==
  DoubleClickHit
  => /\ last.hitResult.segmentHit \o last.hitResult.shapeHit
          \o last.hitResult.endPointHit # <<>>
     /\ selections = << [subIdx |-> MostRelevantSubIdx(last.hitResult),
                         source |-> canvasType, type |-> "SubPath"] >>
     /\ appMode = "AddPoints"
     /\ appModePending

\* a double click has hit a segment of one subpath and an end point of another
C10_Witness ==
  /\ DoubleClickHit
  /\ last.hitResult.segmentHit # <<>>
  /\ last.hitResult.endPointHit # <<>>
  /\ last.hitResult.segmentHit # last.hitResult.endPointHit

----------------------------------------------------------------------------
(* Properties of draw() (SpecDraw) *)

\* the places in the calls of the last draw() of the calls named name
Calls(name) == { i \in DOMAIN ops : ops[i].op = name }

\* the places where path commands are handed to the surface ctx
CommandsOn(ctx) == { i \in Calls("commands") : ops[i].ctx = ctx }

\* the places where the commands of a PathLayer, not those of a ClipPathLayer
\* (which ctx.clip() follows), are handed to a surface
PathCommands == { i \in Calls("commands") : i + 2 \notin Calls("clip") }

\* the places where the surface from is composited onto another one
CompositesOf(from) == { i \in Calls("drawImage") : ops[i].from = from }

\* C7: when trimPathStart, trimPathEnd or trimPathOffset is not its default
\* (0, 1, 0) the dash array is [f * L, (1 - f + 0.001) * L], L the path
\* length and f = trimPathEnd - trimPathStart, plus 1 when trimPathStart >
\* trimPathEnd; start 0.25, end 0.75, offset 0 and L = 100 give [50, 50.1];
\* with the three defaults the dash array is empty.  (Lengths in 1/Unit.)
C7_TrimDash ==
  \A i \in Calls("setLineDash") :
    LET paint == activePathLayer(State).paint
        L == activePathLayer(State).pathData.length
        f == paint.trimPathEnd - paint.trimPathStart
             + (IF paint.trimPathStart > paint.trimPathEnd THEN Unit ELSE 0)
    IN  /\ (paint.trimPathStart = 0 /\ paint.trimPathEnd = Unit
            /\ paint.trimPathOffset = 0)
           => ops[i].dash = <<>>
        /\ (paint.trimPathStart # 0 \/ paint.trimPathEnd # Unit
            \/ paint.trimPathOffset # 0)
           => ops[i].dash = << f * L, (Unit - f + 1) * L >>
        /\ (paint.trimPathStart = 250 /\ paint.trimPathEnd = 750
            /\ paint.trimPathOffset = 0 /\ L = 100)
           => ops[i].dash = << 50 * Unit, 50 * Unit + 100 >>

\* a path trimmed from 0.25 to 0.75 has been drawn with the dash [50, 50.1]
C7_Witness ==
  /\ last.op = "draw"
  /\ disabledSubPathIndices = {}
  /\ \E i \in Calls("setLineDash") :
       /\ activePathLayer(State).paint.trimPathStart = 250
       /\ activePathLayer(State).paint.trimPathEnd = 750
       /\ ops[i].dash = << 50 * Unit, 50 * Unit + 100 >>

\* C8: in a draw() that shows the layers with a disabled subpath index, the
\* disabled subpaths of the active path are drawn to the offscreen subpath
\* surface, that surface is then composited once onto the layer surface at
\* the disabled opacity, and only after that are the enabled subpaths drawn,
\* on the layer surface; with no disabled subpath index the offscreen subpath
\* surface is neither drawn to nor composited.
C8_DisabledThenCompositeThenEnabled ==
  (isViewInit /\ vectorLayer.defined /\ activePathId # NoId)
  => IF disabledSubPathIndices # {}
     THEN /\ Cardinality(CompositesOf("offscreenSubPath")) = 1
          /\ \A c \in CompositesOf("offscreenSubPath") :
               /\ ops[c].ctx \in {"rendering", "offscreenLayer"}
               /\ ops[c].alpha = Frac(DISABLED_ALPHA, Unit)
               /\ \A i \in PathCommands \cap CommandsOn("offscreenSubPath") :
                    /\ i < c
                    /\ \A k \in DOMAIN ops[i].commands :
                         ops[i].commands[k].subIdx \in disabledSubPathIndices
               /\ \A i \in PathCommands \ CommandsOn("offscreenSubPath") :
                    /\ c < i
                    /\ ops[i].ctx = ops[c].ctx
                    /\ \A k \in DOMAIN ops[i].commands :
                         ops[i].commands[k].subIdx \notin disabledSubPathIndices
     ELSE /\ CompositesOf("offscreenSubPath") = {}
          /\ \A i \in DOMAIN ops : ops[i].ctx # "offscreenSubPath"

\* a draw() has drawn a disabled subpath and an enabled subpath of the active
\* path
C8_Witness ==
  /\ last.op = "draw"
  /\ disabledSubPathIndices # {}
  /\ PathCommands \cap CommandsOn("offscreenSubPath") # {}
  /\ PathCommands \ CommandsOn("offscreenSubPath") # {}
  /\ CompositesOf("offscreenSubPath") # {}

\* (0.38 if the layer is disabled, else 1) * vectorLayer.alpha, in
\* 1/(Unit * Unit)
ComposedAlpha ==
  (IF canvasType = "Preview" /\ ~morphable THEN DISABLED_ALPHA ELSE Unit)
  * vectorLayer.nodes[1].alpha

\* C9: with composed alpha = (0.38 if the layer is disabled, else 1) *
\* vectorLayer.alpha, draw() draws the layers on the rendering surface and
\* composites no offscreen layer surface when the composed alpha is 1, and
\* draws them to the offscreen layer surface and composites it exactly once,
\* with that alpha, when it is below 1.
C9_OffscreenLayerOnlyBelowOne ==
  (isViewInit /\ vectorLayer.defined)
  => /\ ComposedAlpha = Unit * Unit
        => /\ CompositesOf("offscreenLayer") = {}
           /\ \A i \in DOMAIN ops : ops[i].ctx # "offscreenLayer"
           /\ \A i \in Calls("commands") \ CommandsOn("offscreenSubPath") :
                ops[i].ctx = "rendering"
     /\ ComposedAlpha < Unit * Unit
        => /\ Cardinality(CompositesOf("offscreenLayer")) = 1
           /\ \A c \in CompositesOf("offscreenLayer") :
                /\ ops[c].ctx = "rendering"
                /\ ops[c].alpha = Frac(ComposedAlpha, Unit * Unit)
                /\ \A i \in Calls("commands") \ CommandsOn("offscreenSubPath") :
                     ops[i].ctx = "offscreenLayer" /\ i < c

\* a disabled Preview canvas has drawn a path to the offscreen layer surface
\* and composited it at 0.38
C9_Witness ==
  /\ last.op = "draw"
  /\ disabledSubPathIndices = {}
  /\ ComposedAlpha = DISABLED_ALPHA * Unit
  /\ CommandsOn("offscreenLayer") # {}
  /\ CompositesOf("offscreenLayer") # {}

----------------------------------------------------------------------------
(* Properties of performHitTest (SpecHitTest) *)

\* C11: whatever the options of a call of performHitTest, a segment range
\* test is handed to the hit test of the path only if the active path layer
\* is stroked.
C11_SegmentTestOnlyIfStroked ==
  (last.op = "performHitTest" /\ ~last.result.raised)
  => (last.result.value.isSegmentInRangeFn
      => activePathLayer(State).paint.isStroked)

----------------------------------------------------------------------------
(* Properties of the mouse handlers (SpecMouse) *)

\* the last handler was a mouse handler that handed a point to a controller
Dispatched ==
  /\ last.op \in MouseHandlerNames
  /\ "controller" \in DOMAIN last
  /\ last.controller # "none"
  /\ ~("missing" \in DOMAIN last)

\* the position of a mouse event in the container, in viewport pixels
ViewportPosition(event) ==
  [x |-> (event.pageX - CanvasOffset.left) * DEFAULT_VIEWPORT_SIZE,
   y |-> (event.pageY - CanvasOffset.top) * DEFAULT_VIEWPORT_SIZE,
   q |-> cssScale]

\* C12 as stated: the point a mouse handler hands to the controller is the
\* position of the event mapped through the inverse of the composed transforms
\* of the ancestors of the active layer
C12_PointInPathCoordinates ==
  (Dispatched /\ hasActivePathLayer(State))
  => LET inPath == transformedMousePoint(vectorLayer, activePathId,
                                         ViewportPosition(last.event))
     IN  ~inPath.raised /\ SamePoint(last.point, inPath.value)

\* C12, amended: the point a mouse handler hands to the controller is the
\* position of the event in the container divided by cssScale, in viewport
\* coordinates, whatever the transforms of the ancestors of the active layer
C12_PointInViewportCoordinates ==
  Dispatched => SamePoint(last.point, ViewportPosition(last.event))

\* a mouse down at a position with x # 0 reaches the path selector of a canvas
\* of cssScale 2 whose active layer is in a transformed group
C12_Witness ==
  /\ Dispatched
  /\ last.op = "onMouseDown"
  /\ last.event.pageX # CanvasOffset.left
  /\ cssScale = 2 * DEFAULT_VIEWPORT_SIZE
  /\ hasActivePathLayer(State)
  /\ getTransformsForLayer(vectorLayer, activePathId).value # <<>>

\* C19: no mouse handler calls a controller that does not exist, whatever the
\* order of the mode notifications, the changes of the active path and of the
\* layer tree, and the mouse events
C19_NoDispatchToMissingController ==
  last.op \in MouseHandlerNames => ~("missing" \in DOMAIN last)

\* the pointer-down of the path selector and the move of the last handler are
\* nearer than (farther than) DRAG_TRIGGER_TOUCH_SLOP / cssScale
MovedLessThanSlop(mouseDown, mouseMove) ==
  LET d == DistanceSq(mouseDown, mouseMove)
  IN  d.num * cssScale * cssScale
        < DRAG_TRIGGER_TOUCH_SLOP * DRAG_TRIGGER_TOUCH_SLOP
            * DEFAULT_VIEWPORT_SIZE * DEFAULT_VIEWPORT_SIZE * d.den

MovedMoreThanSlop(mouseDown, mouseMove) ==
  LET d == DistanceSq(mouseDown, mouseMove)
  IN  d.num * cssScale * cssScale
        > DRAG_TRIGGER_TOUCH_SLOP * DRAG_TRIGGER_TOUCH_SLOP
            * DEFAULT_VIEWPORT_SIZE * DEFAULT_VIEWPORT_SIZE * d.den

\* a mouse handler hands its point to the path selector, which a pointer-down
\* on a point has armed
ArmedSelectorHandles(name) ==
  /\ pathSelector.defined
  /\ pathSelector.state = "PointerDown"
  /\ last'.op = name
  /\ Dispatched'
  /\ last'.controller = "pathSelector"

\* C13: after a pointer-down that hit a point, a move of the pointer by less
\* than DRAG_TRIGGER_TOUCH_SLOP / cssScale does not trigger the drag, and the
\* pointer-up of a drag that was not triggered is a click that selects the
\* point and asks for no mutation; a move by more than the threshold triggers
\* the drag
C13_DragTriggerSlop ==
  [][ /\ ArmedSelectorHandles("onMouseMove")
        => /\ MovedLessThanSlop(pathSelector.mouseDown[1], last'.point)
                => pathSelector'.state = "PointerDown"
           /\ MovedMoreThanSlop(pathSelector.mouseDown[1], last'.point)
                => pathSelector'.state = "Dragging"
      /\ ArmedSelectorHandles("onMouseUp")
        => /\ last'.click
           /\ ~last'.mutation
           /\ selections' = << [subIdx |-> pathSelector.hit[1].subIdx,
                                cmdIdx |-> pathSelector.hit[1].cmdIdx,
                                source |-> canvasType, type |-> "Point"] >>
    ]_vars

\* on a canvas of cssScale 2 the pointer has moved away from the pointer-down
\* by less than the threshold, and the drag is still only armed
C13_Witness ==
  /\ last.op = "onMouseMove"
  /\ Dispatched
  /\ cssScale = 2 * DEFAULT_VIEWPORT_SIZE
  /\ pathSelector.defined
  /\ pathSelector.state = "PointerDown"
  /\ ~SamePoint(pathSelector.mouseDown[1], last.point)

----------------------------------------------------------------------------
(* Properties of the app-mode callback after a double click (Spec) *)

\* the canvas handles the app-mode notification
HandlesAppModeNotification == appModePending /\ ~appModePending'

\* C18: when the canvas handles the AddPoints notification that follows a
\* double click that hit subpath s, a segment splitter restricted to s exists,
\* no path selector exists, and the selections are still exactly the SubPath
\* selection of s; and every segment splitter an app-mode notification creates
\* is restricted to the subIdx of the first selection, or is unrestricted if
\* nothing is selected
C18_SplitterRestrictedToSelection ==
  [][ HandlesAppModeNotification
      => /\ DoubleClickHit
              => /\ segmentSplitter'.defined
                 /\ segmentSplitter'.restrictToSubIdx
                      = << MostRelevantSubIdx(last.hitResult) >>
                 /\ ~pathSelector'.defined
                 /\ selections' = << [subIdx |-> MostRelevantSubIdx(last.hitResult),
                                      source |-> canvasType, type |-> "SubPath"] >>
         /\ segmentSplitter'.defined
              => segmentSplitter'.restrictToSubIdx
                   = IF selections = <<>> THEN <<>> ELSE << selections[1].subIdx >>
    ]_vars

\* the AddPoints notification after a double click on the Start canvas has
\* been handled: the selection has this canvas as its source
C18_Witness ==
  /\ last.op = "appMode"
  /\ last.mode = "AddPoints"
  /\ segmentSplitter.defined
  /\ segmentSplitter.restrictToSubIdx # <<>>
  /\ selections = << [subIdx |-> segmentSplitter.restrictToSubIdx[1],
                      source |-> canvasType, type |-> "SubPath"] >>

----------------------------------------------------------------------------
(* Properties of the hover previews and of the path mutations (SpecPath) *)

\* the canvas handles a hover notification
HandlesHover ==
  /\ last'.op = "drawOverlays"
  /\ "hover" \in DOMAIN last'
  /\ isViewInit
  /\ canvasType # "Preview"

\* the hover of the notification is no hover, or a hover of another canvas of
\* a type other than Point
HoverIsCleared(h) ==
  ~h.defined \/ (h.source # canvasType /\ h.type # "Point")

\* C14: handling a hover notification of any type from any canvas leaves the
\* layer tree and the active path of the state service as they are; the path
\* that a Split, Unsplit, Reverse, ShiftForward or ShiftBack hover of this
\* canvas builds is stored in currentHoverPreviewPath; and the preview is
\* undefined after a notification without a hover or with a hover of another
\* canvas of a type other than Point
C14_HoverLeavesActivePath ==
  [][ HandlesHover
      => /\ vectorLayer' = vectorLayer
         /\ activePathId' = activePathId
         /\ HoverIsCleared(last'.hover) => currentHoverPreviewPath' = NoPreview
         /\ (~HoverIsCleared(last'.hover) /\ last'.hover.type # "Point" /\ ~error')
              => currentHoverPreviewPath'.defined
    ]_vars

\* a Split hover of the other canvas on a segment of the path has been handled
C14_Witness ==
  /\ last.op = "drawOverlays"
  /\ "hover" \in DOMAIN last
  /\ last.hover.defined
  /\ last.hover.type = "Split"
  /\ last.hover.source # canvasType
  /\ HasSegment(activePathLayer(State).pathData, last.hover.subIdx, last.hover.cmdIdx)
  /\ ~currentHoverPreviewPath.defined

\* the last mutation of the active path was of the type, after one of type
\* previous
Mutated(type, previous) ==
  /\ last.op = "mutation"
  /\ last.type = type
  /\ last.previous = previous

\* C15: splitCommandInHalf at an index followed by unsplitCommand of the
\* command it inserted gives back the commands of the path: their number,
\* their kinds, their points and their isSplit flags
C15_SplitUnsplitRoundTrip ==
  Mutated("Unsplit", "Split") => activePathLayer(State).pathData = last.original

\* a segment of a path has been split and the inserted command unsplit
C15_Witness ==
  /\ Mutated("Unsplit", "Split")
  /\ HasSegment(last.original, last.subIdx, last.cmdIdx)

\* the subpath that the run of shifts of last shifts, before the run
ShiftedBefore == last.original.subPaths[last.subIdx + 1]

\* the same subpath now
ShiftedNow == activePathLayer(State).pathData.subPaths[last.subIdx + 1]

\* a run of shiftSubPathForward on a closed subpath
ShiftedForward ==
  /\ last.op = "mutation"
  /\ last.type = "ShiftForward"
  /\ last.subIdx < Len(last.original.subPaths)
  /\ isClosed(ShiftedBefore)

EndPoints(subPath) == { LowestTerms(subPath[i].end) : i \in DOMAIN subPath }

C20_LabeledSubIdxIsPathIndex ==
  (last.op = "drawLabeledPoints" /\ ~last.result.raised)
  => \A i \in DOMAIN last.result.value :
       LET info == last.result.value[i]
           subPaths == labeledPath(State).subPaths
       IN  /\ info.subIdx + 1 \in DOMAIN subPaths
           /\ info.cmdIdx + 1 \in DOMAIN subPaths[info.subIdx + 1]
           /\ subPaths[info.subIdx + 1][info.cmdIdx + 1] = info.cmd

----------------------------------------------------------------------------
(* Properties of the shape splitter's overlays (SpecSplitShape) *)

\* C17: after the first click of a shape split, the line that
\* drawHighlightedSplitShapeSegment strokes starts, on the surface, at the
\* entry marker of drawSplitShapePreview (the initial projection mapped once
\* from path to drawing coordinates), and ends at the drawing position of the
\* final projection if the second click is recorded and at the last known
\* mouse location otherwise, whatever the transforms of the active layer
C17_PreviewLineMeetsMarker ==
  (/\ last.op = "drawHighlightedSplitShapeSegment"
   /\ ~last.result.raised
   /\ last.result.value.line)
  => LET marker == drawSplitShapePreview(State).value
         final == shapeSplitter.finalProjection
     IN  /\ marker.marker
         /\ SamePoint(last.result.value.start, marker.entry)
         /\ SamePoint(last.result.value.end,
                      IF final # <<>>
                      THEN pathPointToDrawingCoords(vectorLayer, activePathId,
                                                    final[1]).value
                      ELSE shapeSplitter.lastKnownMouseLocation[1])

----------------------------------------------------------------------------
(* Properties of drawLabeledPoints under selections, hovers and drags         *)
(* (SpecLabels)                                                               *)

\* the indices, in path.getSubPaths(), of the subpaths that are not collapsing
ShownSubIdxs(path) ==
  SelectSeq([i \in 1..Len(path.subPaths) |-> i - 1],
            LAMBDA s : ~isCollapsing(path.subPaths[s + 1]))

\* (subIdx, cmdIdx) of every command of every subpath that is not collapsing
ShownPositions(path) ==
  { <<s, c>> : s \in 0..(Len(path.subPaths) - 1), c \in 0..MaxCommands } \cap
  { sc \in (0..(Len(path.subPaths) - 1)) \X (0..MaxCommands) :
      /\ ~isCollapsing(path.subPaths[sc[1] + 1])
      /\ sc[2] < Len(path.subPaths[sc[1] + 1]) }

\* the position in the path of the i-th point drawLabeledPoints has drawn
DrawnPosition(path, drawn, i) ==
  << ShownSubIdxs(path)[drawn[i].subIdx + 1], drawn[i].cmdIdx >>

DraggedPositions ==
  { << d.subIdx, d.cmdIdx >> : d \in { getDraggedCommandIndex(State)[k] :
                                        k \in DOMAIN getDraggedCommandIndex(State) } }

LabeledPointsDrawn ==
  /\ last.op = "drawLabeledPoints"
  /\ ~last.result.raised

\* C21: for every combination of selections, hover and drag, drawLabeledPoints
\* draws the point of every command of every subpath that is not collapsing
\* exactly once, except the point that is being dragged, which it does not draw
C21_EveryPointOnceButDragged ==
  LabeledPointsDrawn =>
    LET path == labeledPath(State)
        drawn == last.result.value
    IN  /\ \A i, j \in DOMAIN drawn :
             DrawnPosition(path, drawn, i) = DrawnPosition(path, drawn, j) => i = j
        /\ { DrawnPosition(path, drawn, i) : i \in DOMAIN drawn }
             = ShownPositions(path) \ DraggedPositions
        /\ \A i \in DOMAIN drawn :
             drawn[i].cmd = path.subPaths[DrawnPosition(path, drawn, i)[1] + 1]
                                         [drawn[i].cmdIdx + 1]

----------------------------------------------------------------------------
(* Save and restore on the drawing surfaces (SpecDraw) *)

Contexts == {"rendering", "overlay", "offscreenLayer", "offscreenSubPath"}

\* from call i on, with the save stack of ctx at the given depth above the
\* one before the calls: no restore without a save before it, and the depth
\* is 0 after the last call
RECURSIVE SaveStackBalanced(_, _, _, _)
SaveStackBalanced(calls, ctx, i, depth) ==
  IF depth < 0 THEN FALSE
  ELSE IF i > Len(calls) THEN depth = 0
  ELSE SaveStackBalanced(calls, ctx, i + 1,
         depth + (IF calls[i].ctx # ctx THEN 0
                  ELSE IF calls[i].op = "save" THEN 1
                  ELSE IF calls[i].op = "restore" THEN -1
                  ELSE 0))

\* the calls of the last draw() or drawOverlays(), those of the labeled
\* points included
SurfaceCalls == overlayCallsFrom(State, ops)

\* C22: a draw() or drawOverlays() that has completed leaves the save stack of
\* each of the four contexts at the depth it had before the call, and has at
\* no point restored a context more often than it had saved it
C22_SaveRestoreBalanced ==
  ~error =>
    LET calls == SurfaceCalls
    IN  \A ctx \in Contexts : SaveStackBalanced(calls, ctx, 1, 0)

\* a completed draw() of a tree with a ClipPathLayer that takes both offscreen
\* passes, finds no enabled command of the active path, labels points and
\* draws the pixel grid
C22_Witness ==
  /\ ~error
  /\ last.op = "draw"
  /\ \E i \in DOMAIN ops : ops[i].op = "clip"
  /\ \E i \in DOMAIN ops : ops[i].op = "save" /\ ops[i].ctx = "offscreenSubPath"
  /\ \E i \in DOMAIN ops : ops[i].op = "save" /\ ops[i].ctx = "offscreenLayer"
  /\ \E i \in DOMAIN ops : ops[i].op = "fillRect"
  /\ \E i \in DOMAIN SurfaceCalls : SurfaceCalls[i].op = "labeledPoint"
  /\ hasActivePathLayer(State)
  /\ extractDrawingCommandsFn(State, activePathId, FALSE) = <<>>

----------------------------------------------------------------------------
(* Properties of a Preview canvas (SpecPreview) *)

\* the names, in last, of the handlers of the canvas: the mouse handlers, the
\* double click and the app-mode notification
CanvasHandlerNames == MouseHandlerNames \cup {"onDoubleClick", "appMode"}

\* C23: a Preview canvas never has a path selector, a segment splitter or a
\* shape splitter, and none of its handlers (app-mode notification, mouse
\* down, move, up, leave, double click) hands a pointer event to a controller,
\* changes the selections or asks for another app mode
C23_PreviewIsReadOnly ==
  [][canvasType = "Preview" =>
       /\ pathSelector' = NoController
       /\ segmentSplitter' = NoController
       /\ shapeSplitter' = NoController
       /\ last'.op \in CanvasHandlerNames =>
            /\ selections' = selections
            /\ appMode' = appMode
            /\ ~("controller" \in DOMAIN last')]_vars

\* a Preview canvas with an active path and a selection has handled a double
\* click in SelectPoints mode, after the app mode had been changed
C23_Witness ==
  /\ canvasType = "Preview"
  /\ last.op = "onDoubleClick"
  /\ appMode = "SelectPoints"
  /\ activePathId # NoId
  /\ selections # <<>>

\* a Preview canvas with an active path has handled a mouse down in
\* SplitSubPaths mode
C23_MouseWitness ==
  /\ canvasType = "Preview"
  /\ last.op = "onMouseDown"
  /\ appMode = "SplitSubPaths"
  /\ activePathId # NoId

----------------------------------------------------------------------------
(* Properties of resizeAndDraw (SpecResize) *)

AtMost(a, b) == ~Greater(a, b)

\* a and b differ by at most b / 2^(MantissaBits - k): by the rounding of a
\* division and a multiplication for k = 1 (one unit in the last place of b)
Near(a, b, k) ==
  Abs(a.num * b.den - b.num * a.den) * Pow2(MantissaBits - k) <= b.num * a.den

\* a is at most b, or above it by rounding only; the aspect ratios, rounded,
\* can be equal when the viewport is the wider by less than the rounding,
\* and the scale of the height is then taken for it
AtMostOrNear(a, b) == AtMost(a, b) \/ Near(a, b, 3)

====
